---- MODULE Spec2Model ----
(***************************************************************************)
(* Model of the masakyuk-api ingredient matcher and of the handlers that   *)
(* feed it: createAffiliateRepository().matchIngredient, the routes        *)
(* GET /affiliates/match and GET /recipes/:id/with-affiliates, and         *)
(* importAffiliatesCsv; beside them the {exact, alias, contains, search}   *)
(* pipeline of the implementation plan; the CSV imports of tags, recipes   *)
(* and affiliates with their routes and validate functions; and the        *)
(* serverless entry point.                                                 *)
(*                                                                         *)
(* Spec         one GET /affiliates/match request at a time, and imports   *)
(* SpecTwice    two requests in a row for the same normalized name         *)
(* SpecContains the callback of the contains pipeline on loaded products   *)
(* SpecRecipe   GET /recipes/:id/with-affiliates, its calls interleaved    *)
(* SpecImportRoute  the POST .../import routes around the import service   *)
(* SpecValidate     the three validate functions on parsed CSV rows        *)
(* SpecConcurrent   importAffiliatesCsv beside GET /affiliates/match       *)
(* SpecImports      the three imports on their tables                      *)
(* SpecServerless   overlapping invocations of the serverless handler      *)
(*                                                                         *)
(* Text is a sequence of one-character strings.  The three SQL predicates  *)
(* of matchIngredient (ILIKE, = ANY(lower(aliases)), word_similarity) are  *)
(* modelled by what PostgreSQL and pg_trgm compute for them.               *)
(***************************************************************************)
EXTENDS Integers, Sequences, FiniteSets, TLC

VARIABLES
    catalog,        \* rows of table affiliate_products, in insertion order
    pc,             \* position of the GET /affiliates/match request in flight
    req,            \* its `ingredient` query parameter (Absent when missing)
    normalized,     \* local `normalized` of matchIngredient
    match,          \* what matchIngredient settled with
    response,       \* the reply of the route
    calls,          \* number of matchIngredient invocations of this request
    prev,           \* the call a client keeps to compare the next one with
    allAffiliates,  \* contains pipeline: the products loaded for one recipe
    ing,            \* contains pipeline: the ingredient handed to the callback
    enrichedOne,    \* contains pipeline: what the callback returned for it
    rpc,            \* position of the GET /recipes/:id/with-affiliates request
    recipe,         \* what findWithRelations returned to it
    tasks,          \* its matchIngredient calls, one per ingredient position
    finished,       \* the positions in the order in which their calls settled
    recipeResponse, \* the reply of the route
    ipc,            \* position of the POST .../import request in flight
    importReq,      \* that request, and what the import service did for it
    importReply,    \* the reply of the import route
    validation,     \* the rows last handed to a validate function, and its errors
    tx,             \* importAffiliatesCsv in flight: its file, transaction and outcome
    history,        \* the committed catalogs since the match call in flight began
    db,             \* tables tags, recipes, recipe_images, recipe_tags and their sequences
    recipesImport,  \* importRecipesCsv in flight: its file, tag map and outcome
    tagsImport,     \* the last importTagsCsv: its file and outcome
    appPromise,     \* serverless entry: module variable appPromise
    builds,         \* serverless entry: number of calls of buildApp
    invocations     \* serverless entry: the handler invocations of this instance

vars == <<catalog, pc, req, normalized, match, response, calls, prev,
          allAffiliates, ing, enrichedOne,
          rpc, recipe, tasks, finished, recipeResponse,
          ipc, importReq, importReply, validation, tx, history,
          db, recipesImport, tagsImport,
          appPromise, builds, invocations>>

\* the state of GET /affiliates/match and of the table it reads
matcherVars == <<catalog, pc, req, normalized, match, response, calls>>

\* the state of the contains pipeline
containsVars == <<allAffiliates, ing, enrichedOne>>

\* the state of GET /recipes/:id/with-affiliates
recipeVars == <<rpc, recipe, tasks, finished, recipeResponse>>

\* the state of the POST .../import routes
importRouteVars == <<ipc, importReq, importReply>>

\* the last call of validateTagRows, validateRecipeRows or validateAffiliateRows
validateVars == <<validation>>

\* importAffiliatesCsv running beside the readers of its table
affiliateImportVars == <<tx, history>>

\* importRecipesCsv and importTagsCsv, and the tables they write
recipeImportVars == <<db, recipesImport, tagsImport>>

\* the serverless entry point
serverlessVars == <<appPromise, builds, invocations>>

\* the state of the import side of the service and of its entry point
importSideVars ==
    <<importRouteVars, validateVars, affiliateImportVars, recipeImportVars, serverlessVars>>

\* the state of the matching side of the service
matchSideVars == <<matcherVars, prev, containsVars, recipeVars>>

\* what the handlers of GET /affiliates/match and the import never touch
elsewhere == <<prev, containsVars, recipeVars, importSideVars>>

-----------------------------------------------------------------------------
(* Bounds *)

MaxLen == 2          \* longest enumerated ingredient text
MaxProducts == 2     \* most data rows in one imported CSV
MaxLoaded == 3       \* most products loaded by the contains pipeline
MaxIngredients == 2  \* most ingredients of a recipe
MaxErrors == 2       \* most errors carried by one CsvValidationError
MaxRows == 2         \* most data rows of a CSV handed to a validate function
MaxCommits == 1      \* most imports committing while one match call is in flight
MaxInvocations == 2  \* most handler invocations of one instance in flight
MaxSerial == 3       \* highest id drawn from the sequence of tags or of recipes

(* Program constant: the length limit of the `ingredient` parameter. *)
MaxIngredientLength == 200

-----------------------------------------------------------------------------
(* Text *)

Chars == {"a", "b", "A", " ", "%", "_", "\\"}

Str(n) == UNION {[1..k -> Chars] : k \in 0..n}

Rep(c, n) == [i \in 1..n |-> c]

\* String.prototype.toLowerCase / SQL lower() on the modelled alphabet
LowerChar(c) == IF c = "A" THEN "a" ELSE IF c = "B" THEN "b" ELSE c

ToLower(s) == [i \in 1..Len(s) |-> LowerChar(s[i])]

MinOf(S) == CHOOSE x \in S : \A y \in S : x <= y
MaxOf(S) == CHOOSE x \in S : \A y \in S : x >= y

\* String.prototype.trim
Trim(s) ==
    LET keep == {i \in 1..Len(s) : s[i] # " "}
    IN  IF keep = {} THEN <<>> ELSE SubSeq(s, MinOf(keep), MaxOf(keep))

\* const normalized = name.toLowerCase().trim()
Normalize(name) == Trim(ToLower(name))

\* String.prototype.split(sep) for a one-character separator
RECURSIVE Split(_, _)
Split(s, sep) ==
    LET cut == {i \in 1..Len(s) : s[i] = sep}
    IN  IF cut = {} THEN <<s>>
        ELSE <<SubSeq(s, 1, MinOf(cut) - 1)>>
                 \o Split(SubSeq(s, MinOf(cut) + 1, Len(s)), sep)

-----------------------------------------------------------------------------
(* ILIKE: PostgreSQL lower-cases text and pattern and runs its LIKE        *)
(* matcher, in which % matches any run, _ any one character and backslash  *)
(* quotes the next pattern character; a pattern that ends in the middle of *)
(* a quote raises an error once the matcher reaches it.                    *)

RECURSIVE MatchText(_, _), LikeSkip(_, _), LikeScan(_, _, _)

\* the text scan after a % : try every position that starts with firstpat
LikeScan(t, p, firstpat) ==
    IF t = <<>> THEN "ABORT"
    ELSE IF Head(t) = firstpat
         THEN LET m == MatchText(t, p)
              IN  IF m # "FALSE" THEN m ELSE LikeScan(Tail(t), p, firstpat)
         ELSE LikeScan(Tail(t), p, firstpat)

\* the pattern after a % : swallow further % and _ , then scan
LikeSkip(t, p) ==
    IF p = <<>> THEN "TRUE"
    ELSE IF Head(p) = "%" THEN LikeSkip(t, Tail(p))
    ELSE IF Head(p) = "_"
         THEN IF t = <<>> THEN "ABORT" ELSE LikeSkip(Tail(t), Tail(p))
    ELSE IF Head(p) = "\\"
         THEN IF Len(p) < 2 THEN "ERROR" ELSE LikeScan(t, p, p[2])
    ELSE LikeScan(t, p, Head(p))

MatchText(t, p) ==
    IF p = <<"%">> THEN "TRUE"
    ELSE IF t # <<>> /\ p # <<>>
    THEN IF Head(p) = "\\"
         THEN IF Len(p) < 2 THEN "ERROR"
              ELSE IF p[2] # Head(t) THEN "FALSE"
              ELSE MatchText(Tail(t), Tail(Tail(p)))
         ELSE IF Head(p) = "%" THEN LikeSkip(t, Tail(p))
         ELSE IF Head(p) = "_" THEN MatchText(Tail(t), Tail(p))
         ELSE IF Head(p) # Head(t) THEN "FALSE"
         ELSE MatchText(Tail(t), Tail(p))
    ELSE IF t # <<>> THEN "FALSE"
    ELSE IF \A i \in 1..Len(p) : p[i] = "%" THEN "TRUE"
    ELSE "ABORT"

\* ilike(column, value): "TRUE", "ERROR", or no match ("FALSE" / "ABORT")
ILike(text, pattern) == MatchText(ToLower(text), ToLower(pattern))

-----------------------------------------------------------------------------
(* word_similarity of pg_trgm: the greatest similarity between the trigram *)
(* set of the first text and any continuous extent of the ordered trigrams *)
(* of the second.  Words are the maximal alphanumeric runs, lower-cased    *)
(* and padded with two blanks in front and one behind.                     *)

IsAlnum(c) == c \in {"a", "b", "A", "B"}

\* the positions where a word starts, and where the word started at i ends
WordStarts(s) ==
    {i \in 1..Len(s) : IsAlnum(s[i]) /\ (i = 1 \/ ~IsAlnum(s[i - 1]))}

WordEnd(s, i) ==
    MinOf({j \in i..Len(s) : j = Len(s) \/ ~IsAlnum(s[j + 1])})

RECURSIVE WordsAt(_, _)
WordsAt(s, starts) ==
    IF starts = {} THEN <<>>
    ELSE LET i == MinOf(starts)
         IN  <<SubSeq(s, i, WordEnd(s, i))>> \o WordsAt(s, starts \ {i})

Words(s) == WordsAt(ToLower(s), WordStarts(ToLower(s)))

TrigramsOfWord(w) ==
    LET padded == <<" ", " ">> \o w \o <<" ">>
    IN  [i \in 1..(Len(padded) - 2) |-> SubSeq(padded, i, i + 2)]

RECURSIVE Flatten(_)
Flatten(ss) == IF ss = <<>> THEN <<>> ELSE Head(ss) \o Flatten(Tail(ss))

Trigrams(s) ==
    LET ws == Words(s) IN Flatten([i \in 1..Len(ws) |-> TrigramsOfWord(ws[i])])

\* a score is the fraction num / den
ZeroScore == [num |-> 0, den |-> 1]

ScoreLess(x, y) == x.num * y.den < y.num * x.den

WordSimilarity(s1, s2) ==
    LET t1 == Trigrams(s1)
        t2 == Trigrams(s2)
        T1 == {t1[i] : i \in 1..Len(t1)}
        Extent(l, u) ==
            LET E == {t2[i] : i \in l..u}
                count == Cardinality(E \cap T1)
            IN  [num |-> count, den |-> Cardinality(T1) + Cardinality(E) - count]
        all == {Extent(l, u) : l \in 1..Len(t2), u \in 1..Len(t2)} \cup {ZeroScore}
    IN  IF T1 = {} THEN ZeroScore
        ELSE CHOOSE best \in all : \A sc \in all : ~ScoreLess(best, sc)

\* word_similarity(...) > 0.4 : the score is a float4 and the literal a
\* numeric, so both are widened to float8; float4 2/5 widens to
\* 0.4000000059604645, which is above the literal, hence >= on fractions.
AboveThreshold(sc) == 5 * sc.num >= 2 * sc.den

-----------------------------------------------------------------------------
(* Rows *)

NullAliases == [isNull |-> TRUE, items |-> <<>>]

\* parsed data rows an uploaded affiliates CSV may hold (papaparse output)
CsvRows == {
    [canonical_name |-> <<"a", "b">>,      link |-> <<"1">>,      aliases |-> <<>>],
    [canonical_name |-> <<"a", "%">>,      link |-> <<"2">>,      aliases |-> <<"b">>],
    [canonical_name |-> <<"A">>,           link |-> <<"3">>,      aliases |-> <<"B", "|">>],
    [canonical_name |-> <<"\\", "a">>,     link |-> <<"4">>,      aliases |-> <<" ">>],
    [canonical_name |-> <<" ", "b">>,      link |-> <<"5", " ">>, aliases |-> <<"a", "_", "|", " ", "B">>],
    [canonical_name |-> <<"a">>,           link |-> <<"6">>,      aliases |-> <<"b">>],
    [canonical_name |-> <<" ">>,           link |-> <<" ">>,      aliases |-> <<>>] }

CsvFiles == UNION {[1..n -> CsvRows] : n \in 0..MaxProducts}

\* validateAffiliateRows: the loop from row i on, with the names seen so far
RECURSIVE ValidateAffiliateFrom(_, _, _)
ValidateAffiliateFrom(rows, i, names) ==
    IF i > Len(rows) THEN <<>>
    ELSE LET row == rows[i]
             rowNum == (i - 1) + 2
             name == Trim(row.canonical_name)
             nameErr ==
                 IF name = <<>>
                 THEN <<[row |-> rowNum, field |-> "canonical_name", message |-> "required"]>>
                 ELSE IF name \in names
                 THEN <<[row |-> rowNum, field |-> "canonical_name", message |-> "duplicate"]>>
                 ELSE <<>>
             names2 == IF nameErr = <<>> THEN names \cup {name} ELSE names
             linkErr ==
                 IF Trim(row.link) = <<>>
                 THEN <<[row |-> rowNum, field |-> "link", message |-> "required"]>>
                 ELSE <<>>
         IN  nameErr \o linkErr \o ValidateAffiliateFrom(rows, i + 1, names2)

validateAffiliateRows(rows) == ValidateAffiliateFrom(rows, 1, {})

\* the insert values of importAffiliatesCsv for one CSV row
InsertValue(a) ==
    [canonicalName |-> Trim(a.canonical_name),
     link |-> Trim(a.link),
     aliases |-> IF Trim(a.aliases) # <<>>
                 THEN [isNull |-> FALSE,
                       items |-> LET parts == Split(a.aliases, "|")
                                 IN  [k \in 1..Len(parts) |-> Trim(parts[k])]]
                 ELSE NullAliases]

-----------------------------------------------------------------------------
(* Values of the request in flight *)

Absent == [given |-> FALSE, text |-> <<>>]
Given(s) == [given |-> TRUE, text |-> s]

\* the query strings a client may send: no parameter, every short text, and
\* texts at and just above the length limit
Queries ==
    {Absent} \cup {Given(s) : s \in Str(MaxLen)}
             \cup {Given(Rep("a", MaxIngredientLength)),
                   Given(Rep("a", MaxIngredientLength + 1))}

NoMatchYet == [kind |-> "none"]
Undefined == [kind |-> "undefined"]
Thrown == [kind |-> "thrown"]
\* a result that labels the third stage 'contains'
FoundAsContains(p, t) ==
    [kind |-> "match", product |-> p,
     matchType |-> IF t = "fuzzy" THEN "contains" ELSE t]

Found(p, t) == [kind |-> "match", product |-> p, matchType |-> t]

NoResponse == [status |-> 0]

\* nothing kept from an earlier call
NoPrev == [given |-> FALSE]

\* no recipe looked up
NoRecipe == [found |-> FALSE]

\* no import request in flight
NoImportReq == [route |-> "none"]

\* no importAffiliatesCsv in flight
NoTx == [state |-> "none"]

\* a handler invocation that has not been called, or has returned
NotInvoked == [at |-> "idle"]

\* the tables after the migrations
EmptyDb ==
    [tags |-> <<>>, recipes |-> <<>>, images |-> <<>>, recipeTags |-> <<>>,
     tagSerial |-> 1, recipeSerial |-> 1]

\* no import of that kind yet
NoJob == [state |-> "none"]

\* no validate function called yet
NotValidated == [kind |-> "none"]

\* the import side before any of its requests
ImportSideAtRest ==
    /\ ipc = "idle"
    /\ importReq = NoImportReq
    /\ importReply = NoResponse
    /\ validation = NotValidated
    /\ tx = NoTx
    /\ history = <<<<>>>>
    /\ db = EmptyDb
    /\ recipesImport = NoJob
    /\ tagsImport = NoJob
    /\ appPromise = [set |-> FALSE]         \* `let appPromise = null`
    /\ builds = 0
    /\ invocations = [i \in 1..MaxInvocations |-> NotInvoked]

\* the contains pipeline at rest
NoIngredient == [given |-> FALSE]
NotEnriched == [affiliateMatchType |-> "none"]

-----------------------------------------------------------------------------
(* The three queries of matchIngredient, over the rows of a table *)

\* .where(ilike(affiliateProducts.canonicalName, normalized))
ExactHits(rows, n) ==
    {i \in 1..Len(rows) : ILike(rows[i].canonicalName, n) = "TRUE"}

ExactFails(rows, n) ==
    \E i \in 1..Len(rows) : ILike(rows[i].canonicalName, n) = "ERROR"

\* lower(aliases::text)::text[] : the array is printed, lower-cased and
\* read back; quoting keeps the elements apart, so each comes back lower-cased
LowerAliases(aliases) ==
    IF aliases.isNull THEN <<>>
    ELSE [k \in 1..Len(aliases.items) |-> ToLower(aliases.items[k])]

\* .where(sql`${normalized} = ANY(lower(aliases::text)::text[])`)
AliasHits(rows, n) ==
    {i \in 1..Len(rows) :
        \E k \in 1..Len(LowerAliases(rows[i].aliases)) :
            LowerAliases(rows[i].aliases)[k] = n}

\* .where(word_similarity(normalized, canonical_name) > 0.4)
\* .orderBy(word_similarity(...) DESC).limit(1)
FuzzyHits(rows, n) ==
    LET pass == {i \in 1..Len(rows) :
                    AboveThreshold(WordSimilarity(n, rows[i].canonicalName))}
    IN  {i \in pass : \A j \in pass :
            ~ScoreLess(WordSimilarity(n, rows[i].canonicalName),
                       WordSimilarity(n, rows[j].canonicalName))}

\* rows[0] of a select without a total order: any of the rows that qualify
FirstRow(hits) == hits

-----------------------------------------------------------------------------
(* State machine *)

Init ==
    /\ catalog = <<>>
    /\ pc = "idle"
    /\ req = Absent
    /\ normalized = <<>>
    /\ match = NoMatchYet
    /\ response = NoResponse
    /\ calls = 0
    /\ prev = NoPrev
    /\ allAffiliates = <<>>
    /\ ing = NoIngredient
    /\ enrichedOne = NotEnriched
    /\ rpc = "idle"
    /\ recipe = NoRecipe
    /\ tasks = <<>>
    /\ finished = <<>>
    /\ recipeResponse = NoResponse
    /\ ImportSideAtRest

\* importAffiliatesCsv(db, csvContent), with no request in flight: a CSV that
\* fails validation or has no data row leaves the table alone, any other
\* replaces its rows in one transaction
ImportAffiliates(rows) ==
    /\ pc = "idle"
    /\ IF validateAffiliateRows(rows) # <<>> \/ Len(rows) = 0
       THEN UNCHANGED catalog
       ELSE catalog' = [i \in 1..Len(rows) |-> InsertValue(rows[i])]
    /\ UNCHANGED <<pc, req, normalized, match, response, calls>>
    /\ UNCHANGED elsewhere

\* the guard with the limit off by one
RejectsAtLimit(q) == ~q.given \/ q.text = <<>> \/ Len(q.text) >= MaxIngredientLength

\* the guard of GET /affiliates/match
Rejects(q) == ~q.given \/ q.text = <<>> \/ Len(q.text) > MaxIngredientLength

\* GET /affiliates/match up to the first query of matchIngredient
Receive(q) ==
    /\ pc = "idle"
    /\ req' = q
    /\ IF Rejects(q)
       THEN /\ response' = [status |-> 400]
            /\ pc' = "done"
            /\ UNCHANGED <<normalized, calls>>
       ELSE /\ calls' = calls + 1
            /\ normalized' = Normalize(q.text)
            /\ pc' = "exact"
            /\ UNCHANGED response
    /\ UNCHANGED <<catalog, match>>
    /\ UNCHANGED elsewhere

\* 1. Exact match on canonical_name
ExactQuery ==
    /\ pc = "exact"
    /\ IF ExactFails(catalog, normalized)
       THEN match' = Thrown /\ pc' = "reply"
       ELSE IF ExactHits(catalog, normalized) # {}
       THEN /\ \E i \in FirstRow(ExactHits(catalog, normalized)) :
                    match' = Found(catalog[i], "exact")
            /\ pc' = "reply"
       ELSE pc' = "alias" /\ UNCHANGED match
    /\ UNCHANGED <<catalog, req, normalized, response, calls>>
    /\ UNCHANGED elsewhere

\* the alias query, moving the row it found to the front of the table
AliasQueryPromoting ==
    /\ pc = "alias"
    /\ IF AliasHits(catalog, normalized) # {}
       THEN /\ \E i \in FirstRow(AliasHits(catalog, normalized)) :
                    /\ match' = Found(catalog[i], "alias")
                    /\ catalog' = <<catalog[i]>> \o
                           [k \in 1..(Len(catalog) - 1) |->
                               IF k < i THEN catalog[k] ELSE catalog[k + 1]]
            /\ pc' = "reply"
       ELSE pc' = "fuzzy" /\ UNCHANGED <<match, catalog>>
    /\ UNCHANGED <<req, normalized, response, calls>>
    /\ UNCHANGED elsewhere

\* 2. Alias match
AliasQuery ==
    /\ pc = "alias"
    /\ IF AliasHits(catalog, normalized) # {}
       THEN /\ \E i \in FirstRow(AliasHits(catalog, normalized)) :
                    match' = Found(catalog[i], "alias")
            /\ pc' = "reply"
       ELSE pc' = "fuzzy" /\ UNCHANGED match
    /\ UNCHANGED <<catalog, req, normalized, response, calls>>
    /\ UNCHANGED elsewhere

\* return undefined, with search-link variant of the pipeline set beside it
FinalReturnSearch(name) ==
    [kind |-> "match", matchType |-> "search",
     product |-> [canonicalName |-> <<>>, aliases |-> NullAliases,
                  link |-> <<"?", "q", "=">> \o name]]

FinalReturn(name) == Undefined

\* 3. Fuzzy match, and the final return
FuzzyQuery ==
    /\ pc = "fuzzy"
    /\ IF FuzzyHits(catalog, normalized) # {}
       THEN \E i \in FirstRow(FuzzyHits(catalog, normalized)) :
                match' = Found(catalog[i], "fuzzy")
       ELSE match' = FinalReturn(req.text)
    /\ pc' = "reply"
    /\ UNCHANGED <<catalog, req, normalized, response, calls>>
    /\ UNCHANGED elsewhere

\* the reply without the `if (!match)` branch
ReplyForUnchecked(m) ==
    IF m.kind = "thrown" THEN [status |-> 500]
    ELSE IF m.kind = "undefined" THEN [status |-> 200]
    ELSE [status |-> 200, product |-> m.product, matchType |-> m.matchType]

\* the reply of GET /affiliates/match for what matchIngredient settled with
ReplyFor(m) ==
    IF m.kind = "thrown" THEN [status |-> 500]
    ELSE IF m.kind = "undefined" THEN [status |-> 404]
    ELSE [status |-> 200, product |-> m.product, matchType |-> m.matchType]

Reply ==
    /\ pc = "reply"
    /\ response' = ReplyFor(match)
    /\ pc' = "done"
    /\ UNCHANGED <<catalog, req, normalized, match, calls>>
    /\ UNCHANGED elsewhere

\* the request is over; the next one starts from scratch
Complete ==
    /\ pc = "done"
    /\ pc' = "idle"
    /\ req' = Absent
    /\ normalized' = <<>>
    /\ match' = NoMatchYet
    /\ response' = NoResponse
    /\ calls' = 0
    /\ UNCHANGED catalog
    /\ UNCHANGED elsewhere

Next ==
    \/ \E rows \in CsvFiles : ImportAffiliates(rows)
    \/ \E q \in Queries : Receive(q)
    \/ ExactQuery
    \/ AliasQuery
    \/ FuzzyQuery
    \/ Reply
    \/ Complete

Spec == Init /\ [][Next]_vars

-----------------------------------------------------------------------------
(* Two requests in a row against one catalog: a client sends a name, keeps   *)
(* what matchIngredient returned, and sends a name again that normalizes to  *)
(* the same text (the same name, another letter casing, other padding).      *)

\* String.prototype.toUpperCase on the modelled alphabet
UpperChar(c) == IF c = "a" THEN "A" ELSE IF c = "b" THEN "B" ELSE c

ToUpper(s) == [i \in 1..Len(s) |-> UpperChar(s[i])]

\* the requests of this client: the short texts
ShortQueries == {q \in Queries : Len(q.text) <= MaxLen}

\* importAffiliatesCsv before the first of the two requests
ImportBefore(rows) == ~prev.given /\ ImportAffiliates(rows)

\* the first request
ReceiveFirst(q) == ~prev.given /\ Receive(q)

\* the second request, for the same normalized name
ReceiveAgain(q) ==
    /\ prev.given
    /\ q.given
    /\ Normalize(q.text) = Normalize(prev.text)
    /\ Receive(q)

\* the request is over: the client keeps the outcome of a first call of
\* matchIngredient, and drops what it kept after the second request
Remember ==
    /\ pc = "done"
    /\ prev' = IF calls > 0 /\ ~prev.given
               THEN [given |-> TRUE, text |-> req.text, match |-> match]
               ELSE NoPrev
    /\ pc' = "idle"
    /\ req' = Absent
    /\ normalized' = <<>>
    /\ match' = NoMatchYet
    /\ response' = NoResponse
    /\ calls' = 0
    /\ UNCHANGED <<catalog, containsVars, recipeVars, importSideVars>>

NextTwice ==
    \/ \E rows \in CsvFiles : ImportBefore(rows)
    \/ \E q \in ShortQueries : ReceiveFirst(q)
    \/ \E q \in ShortQueries : ReceiveAgain(q)
    \/ ExactQuery
    \/ AliasQuery
    \/ FuzzyQuery
    \/ Reply
    \/ Remember

SpecTwice == Init /\ [][NextTwice]_vars

-----------------------------------------------------------------------------
(* The contains pipeline {exact, alias, contains, search}: the callback that *)
(* enriches one ingredient from the products loaded into allAffiliates, as   *)
(* the implementation plan of the recipe endpoint has it.                    *)

\* the products a catalog of that pipeline may hold (aliases is NOT NULL)
PlanProducts == {
    [canonicalName |-> <<"a">>,      link |-> <<"1">>, aliases |-> <<>>],
    [canonicalName |-> <<"a", "b">>, link |-> <<"2">>, aliases |-> << <<"B">> >>],
    [canonicalName |-> <<"b", "a">>, link |-> <<"3">>, aliases |-> <<>>],
    [canonicalName |-> <<"A">>,      link |-> <<"4">>, aliases |-> <<>>],
    [canonicalName |-> <<"b">>,      link |-> <<"5">>, aliases |-> << <<"a", "a">> >>]}

PlanCatalogs == UNION {[1..n -> PlanProducts] : n \in 0..MaxLoaded}

\* the ingredient names handed to the callback
PlanChars == {"a", "b", "A", " "}

PlanNames == UNION {[1..k -> PlanChars] : k \in 0..(MaxLen + 1)}

\* String.prototype.includes
Includes(s, sub) ==
    \E i \in 0..(Len(s) - Len(sub)) : SubSeq(s, i + 1, i + Len(sub)) = sub

\* encodeURIComponent on the modelled alphabet
EncodeChar(c) ==
    IF c = " " THEN <<"%", "2", "0">>
    ELSE IF c = "%" THEN <<"%", "2", "5">>
    ELSE IF c = "\\" THEN <<"%", "5", "C">>
    ELSE <<c>>

EncodeURIComponent(s) == Flatten([i \in 1..Len(s) |-> EncodeChar(s[i])])

\* the template up to its [keyword] placeholder, which ends it
SEARCH_URL_TEMPLATE == <<"?", "=">>

\* Array.prototype.find: the first index that satisfies the test, 0 if none
FindFirst(hits) == IF hits = {} THEN 0 ELSE MinOf(hits)

\* Array.prototype.sort((a, b) => b.canonicalName.length - a.canonicalName.length)
\* on the indices idxs, taken in ascending order: the sort is stable, so
\* rows of equal length keep their order
RECURSIVE SortByLengthDesc(_, _)
SortByLengthDesc(rows, idxs) ==
    IF idxs = {} THEN <<>>
    ELSE LET longest == {i \in idxs : \A j \in idxs :
                            Len(rows[i].canonicalName) >= Len(rows[j].canonicalName)}
             first == MinOf(longest)
         IN  <<first>> \o SortByLengthDesc(rows, idxs \ {first})

\* the filter of the contains stage
ContainsCandidates(rows, n) ==
    {i \in 1..Len(rows) : Includes(n, ToLower(rows[i].canonicalName))}

\* the contains stage without its sort
ContainsMatchesUnsorted(rows, n) ==
    LET RECURSIVE Asc(_)
        Asc(idxs) == IF idxs = {} THEN <<>>
                     ELSE <<MinOf(idxs)>> \o Asc(idxs \ {MinOf(idxs)})
    IN  Asc(ContainsCandidates(rows, n))

\* allAffiliates.filter(...).sort(...)
ContainsMatches(rows, n) == SortByLengthDesc(rows, ContainsCandidates(rows, n))

\* the callback of ingredients.map, for the ingredient name
EnrichOne(rows, name) ==
    LET n == Normalize(name)
        exact == FindFirst({i \in 1..Len(rows) : ToLower(rows[i].canonicalName) = n})
        alias == FindFirst({i \in 1..Len(rows) :
                     \E k \in 1..Len(rows[i].aliases) : ToLower(rows[i].aliases[k]) = n})
        containsMatches == ContainsMatches(rows, n)
    IN  IF exact # 0
        THEN [affiliateLink |-> rows[exact].link, affiliateMatchType |-> "exact"]
        ELSE IF alias # 0
        THEN [affiliateLink |-> rows[alias].link, affiliateMatchType |-> "alias"]
        ELSE IF Len(containsMatches) > 0
        THEN [affiliateLink |-> rows[containsMatches[1]].link,
              affiliateMatchType |-> "contains"]
        ELSE [affiliateLink |-> SEARCH_URL_TEMPLATE \o EncodeURIComponent(name),
              affiliateMatchType |-> "search"]

\* const allAffiliates = await db.select().from(affiliateProducts)
InitContains ==
    /\ catalog = <<>>
    /\ pc = "idle"
    /\ req = Absent
    /\ normalized = <<>>
    /\ match = NoMatchYet
    /\ response = NoResponse
    /\ calls = 0
    /\ prev = NoPrev
    /\ allAffiliates \in PlanCatalogs
    /\ ing = NoIngredient
    /\ enrichedOne = NotEnriched
    /\ rpc = "idle"
    /\ recipe = NoRecipe
    /\ tasks = <<>>
    /\ finished = <<>>
    /\ recipeResponse = NoResponse
    /\ ImportSideAtRest

\* one run of the callback
Enrich(name) ==
    /\ ~ing.given
    /\ ing' = [given |-> TRUE, name |-> name]
    /\ enrichedOne' = EnrichOne(allAffiliates, name)
    /\ UNCHANGED <<matcherVars, prev, allAffiliates, recipeVars, importSideVars>>

NextContains == \E name \in PlanNames : Enrich(name)

SpecContains == InitContains /\ [][NextContains]_vars

-----------------------------------------------------------------------------
(* GET /recipes/:id/with-affiliates: the ingredients of the recipe are       *)
(* matched by one matchIngredient call each, all started before any has      *)
(* settled; their queries are answered in any order, and Promise.all hands   *)
(* the results back by position.                                             *)

\* JavaScript null, and a value that is not null
JsNull == [null |-> TRUE]
Js(x) == [null |-> FALSE, value |-> x]

\* the :id path parameters a client may send
IdParams == {<<"1">>, <<"2">>, <<"1", "x">>, <<"x">>, <<"x", "1">>}

NaN == [isNaN |-> TRUE]

DigitValue(c) == IF c = "1" THEN 1 ELSE 2

\* parseInt(text, 10): the value of the leading run of digits, NaN if none
ParseInt(text) ==
    LET stop == {i \in 1..(Len(text) + 1) : i = Len(text) + 1 \/ text[i] \notin {"1", "2"}}
        n == MinOf(stop) - 1
        RECURSIVE Value(_)
        Value(k) == IF k = 0 THEN 0 ELSE 10 * Value(k - 1) + DigitValue(text[k])
    IN  IF n = 0 THEN NaN ELSE [isNaN |-> FALSE, value |-> Value(n)]

\* rows of recipe_ingredients a recipe may have
IngredientPool == {
    [name |-> <<"b">>,      amount |-> 1],
    [name |-> <<"_", "a">>, amount |-> 2],
    [name |-> <<"\\">>,     amount |-> 3]}

\* the ingredients of one recipe: different rows, in sort order
IngredientLists ==
    {l \in UNION {[1..n -> IngredientPool] : n \in 0..MaxIngredients} :
        \A i, j \in 1..Len(l) : i # j => l[i] # l[j]}

\* what findWithRelations(id) may return: undefined, or the recipe of that id
Lookups(id) ==
    {NoRecipe} \cup {[found |-> TRUE, id |-> id, ingredients |-> l] : l \in IngredientLists}

\* the callback's return value without the fields of the ingredient
EnrichedBare(ingredient, m) ==
    [name |-> ingredient.name,
     amount |-> 0,
     affiliateLink |-> IF m.kind = "match" THEN Js(m.product.link) ELSE JsNull,
     affiliateMatchType |-> IF m.kind = "match" THEN Js(m.matchType) ELSE JsNull]

\* { ...ingredient, affiliateLink: match?.product.link ?? null,
\*   affiliateMatchType: match?.matchType ?? null }
Enriched(ingredient, m) ==
    [name |-> ingredient.name,
     amount |-> ingredient.amount,
     affiliateLink |-> IF m.kind = "match" THEN Js(m.product.link) ELSE JsNull,
     affiliateMatchType |-> IF m.kind = "match" THEN Js(m.matchType) ELSE JsNull]

\* results collected in the order in which the calls settled
GatherAsSettled(values, order) == [k \in 1..Len(order) |-> values[order[k]]]

\* Promise.all: the fulfilment values by position of the promise
Gather(values, order) == values

\* the route up to the start of the matchIngredient calls
ReceiveRecipe(param, found) ==
    /\ rpc = "idle"
    /\ pc = "idle"
    /\ IF ParseInt(param).isNaN
       THEN /\ recipeResponse' = [status |-> 400]
            /\ rpc' = "done"
            /\ UNCHANGED <<recipe, tasks>>
       ELSE /\ recipe' = found
            /\ IF ~found.found
               THEN /\ recipeResponse' = [status |-> 404]
                    /\ rpc' = "done"
                    /\ UNCHANGED tasks
               ELSE /\ tasks' = [i \in 1..Len(found.ingredients) |->
                               [pc |-> "exact",
                                normalized |-> Normalize(found.ingredients[i].name),
                                match |-> NoMatchYet]]
                    /\ rpc' = "matching"
                    /\ UNCHANGED recipeResponse
    /\ UNCHANGED <<finished, matcherVars, prev, containsVars, importSideVars>>

\* the call at position i moves on to the next query, or settles with m
TaskMovesOn(i, next) ==
    /\ tasks' = [tasks EXCEPT ![i].pc = next]
    /\ UNCHANGED finished

TaskSettles(i, m) ==
    /\ tasks' = [tasks EXCEPT ![i].pc = "settled", ![i].match = m]
    /\ finished' = Append(finished, i)

\* the exact query of the call at position i is answered
TaskExact(i) ==
    /\ rpc = "matching"
    /\ i <= Len(tasks)
    /\ tasks[i].pc = "exact"
    /\ IF ExactFails(catalog, tasks[i].normalized)
       THEN TaskSettles(i, Thrown)
       ELSE IF ExactHits(catalog, tasks[i].normalized) # {}
       THEN \E r \in FirstRow(ExactHits(catalog, tasks[i].normalized)) :
                TaskSettles(i, Found(catalog[r], "exact"))
       ELSE TaskMovesOn(i, "alias")
    /\ UNCHANGED <<rpc, recipe, recipeResponse, matcherVars, prev, containsVars,
                   importSideVars>>

\* the alias query of the call at position i is answered
TaskAlias(i) ==
    /\ rpc = "matching"
    /\ i <= Len(tasks)
    /\ tasks[i].pc = "alias"
    /\ IF AliasHits(catalog, tasks[i].normalized) # {}
       THEN \E r \in FirstRow(AliasHits(catalog, tasks[i].normalized)) :
                TaskSettles(i, Found(catalog[r], "alias"))
       ELSE TaskMovesOn(i, "fuzzy")
    /\ UNCHANGED <<rpc, recipe, recipeResponse, matcherVars, prev, containsVars,
                   importSideVars>>

\* the fuzzy query of the call at position i is answered
TaskFuzzy(i) ==
    /\ rpc = "matching"
    /\ i <= Len(tasks)
    /\ tasks[i].pc = "fuzzy"
    /\ IF FuzzyHits(catalog, tasks[i].normalized) # {}
       THEN \E r \in FirstRow(FuzzyHits(catalog, tasks[i].normalized)) :
                TaskSettles(i, Found(catalog[r], "fuzzy"))
       ELSE TaskSettles(i, FinalReturn(recipe.ingredients[i].name))
    /\ UNCHANGED <<rpc, recipe, recipeResponse, matcherVars, prev, containsVars,
                   importSideVars>>

\* Promise.all settles: rejected as soon as one call has thrown, fulfilled
\* once every call has returned; the route replies
RespondRecipe ==
    /\ rpc = "matching"
    /\ IF \E i \in 1..Len(tasks) : tasks[i].match = Thrown
       THEN recipeResponse' = [status |-> 500]
       ELSE /\ \A i \in 1..Len(tasks) : tasks[i].pc = "settled"
            /\ recipeResponse' =
                   [status |-> 200,
                    id |-> recipe.id,
                    ingredients |->
                        Gather([i \in 1..Len(tasks) |->
                                   Enriched(recipe.ingredients[i], tasks[i].match)],
                               finished)]
    /\ rpc' = "done"
    /\ UNCHANGED <<recipe, tasks, finished, matcherVars, prev, containsVars,
                   importSideVars>>

\* the request is over
CompleteRecipe ==
    /\ rpc = "done"
    /\ rpc' = "idle"
    /\ recipe' = NoRecipe
    /\ tasks' = <<>>
    /\ finished' = <<>>
    /\ recipeResponse' = NoResponse
    /\ UNCHANGED <<matcherVars, prev, containsVars, importSideVars>>

\* importAffiliatesCsv between two requests
ImportBetween(rows) == rpc = "idle" /\ ImportAffiliates(rows)

NextRecipe ==
    \/ \E rows \in CsvFiles : ImportBetween(rows)
    \/ \E param \in IdParams :
           \E found \in Lookups(ParseInt(param)) : ReceiveRecipe(param, found)
    \/ \E i \in 1..MaxIngredients : TaskExact(i)
    \/ \E i \in 1..MaxIngredients : TaskAlias(i)
    \/ \E i \in 1..MaxIngredients : TaskFuzzy(i)
    \/ RespondRecipe
    \/ CompleteRecipe

SpecRecipe == Init /\ [][NextRecipe]_vars

-----------------------------------------------------------------------------
(* POST /tags/import, /recipes/import and /affiliates/import: the route     *)
(* around the import service.  What the service does with the CSV is an     *)
(* input here: it returns a count, raises CsvValidationError, or fails.     *)

\* what the import routes leave alone
besideImportRoute ==
    <<matchSideVars, validateVars, affiliateImportVars, recipeImportVars, serverlessVars>>

\* errors a CsvValidationError may carry
ErrorPool == {
    [row |-> 2, field |-> "key",  message |-> "key is required"],
    [row |-> 3, field |-> "tags", message |-> "unknown tag key"],
    [row |-> 2, field |-> "",     message |-> "CSV parse error"],
    [row |-> 4, field |-> "canonical_name", message |-> "canonical_name is required"]}

\* the ways a call of the import service ends
ServiceOutcomes ==
    {[kind |-> "imported", imported |-> n] : n \in 0..MaxProducts}
    \cup {[kind |-> "invalid", errors |-> es] : es \in UNION {[1..n -> ErrorPool] : n \in 1..MaxErrors}}
    \cup {[kind |-> "failed"]}

\* `Row ${e.row}, ${e.field}: ${e.message}`
FormatDetail(e) == <<"Row ", e.row, ", ", e.field, ": ", e.message>>

\* the test on the upload: `!file` for the multipart routes, `!csvContent`
\* for the route that reads the body
Supplied(route, content) ==
    IF route = "recipes" THEN content = "csv" ELSE content # "none"


\* the catch block answering every error alike
ImportReplyForUntyped(outcome) ==
    IF outcome.kind = "imported"
    THEN [status |-> 200, imported |-> outcome.imported]
    ELSE [status |-> 500, error |-> "Import failed"]

\* the reply for the way the service call ended
ImportReplyFor(outcome) ==
    IF outcome.kind = "imported"
    THEN [status |-> 200, imported |-> outcome.imported]
    ELSE IF outcome.kind = "invalid"
    THEN [status |-> 400, error |-> "Validation failed",
          details |-> [k \in 1..Len(outcome.errors) |-> FormatDetail(outcome.errors[k])]]
    ELSE [status |-> 500, error |-> "Import failed"]

\* the route up to the call of the import service
ReceiveImport(route, hasDb, content) ==
    /\ ipc = "idle"
    /\ IF ~hasDb
       THEN /\ importReply' = [status |-> 500, error |-> "Import failed"]
            /\ importReq' = [route |-> route, hasDb |-> hasDb, content |-> content,
                             called |-> FALSE, outcome |-> [kind |-> "none"]]
            /\ ipc' = "done"
       ELSE IF ~Supplied(route, content)
       THEN /\ importReply' =
                   [status |-> 400, error |-> "Validation failed",
                    details |-> IF route = "recipes" THEN <<"Empty CSV body">>
                                ELSE <<"No file uploaded">>]
            /\ importReq' = [route |-> route, hasDb |-> hasDb, content |-> content,
                             called |-> FALSE, outcome |-> [kind |-> "none"]]
            /\ ipc' = "done"
       ELSE /\ importReq' = [route |-> route, hasDb |-> hasDb, content |-> content,
                             called |-> TRUE, outcome |-> [kind |-> "none"]]
            /\ ipc' = "service"
            /\ UNCHANGED importReply
    /\ UNCHANGED besideImportRoute

\* the call of the import service ends, and the route replies
ServiceSettles(outcome) ==
    /\ ipc = "service"
    /\ importReq' = [importReq EXCEPT !.outcome = outcome]
    /\ importReply' = ImportReplyFor(outcome)
    /\ ipc' = "done"
    /\ UNCHANGED besideImportRoute

\* the request is over
CompleteImport ==
    /\ ipc = "done"
    /\ ipc' = "idle"
    /\ importReq' = NoImportReq
    /\ importReply' = NoResponse
    /\ UNCHANGED besideImportRoute

NextImportRoute ==
    \* the request carries nothing, an empty text, or CSV text
    \/ \E route \in {"tags", "recipes", "affiliates"}, hasDb \in BOOLEAN,
          content \in {"none", "empty", "csv"} :
           ReceiveImport(route, hasDb, content)
    \/ \E outcome \in ServiceOutcomes : ServiceSettles(outcome)
    \/ CompleteImport

SpecImportRoute == Init /\ [][NextImportRoute]_vars

-----------------------------------------------------------------------------
(* validateRecipeRows, validateAffiliateRows, validateTagRows.  A message   *)
(* is kept by its kind: "required", "duplicate", "not-integer",             *)
(* "not-array", "invalid-json".                                             *)

\* Number(s) for a trimmed, non-empty s: decimal literals with an optional
\* sign and fraction; anything else is NaN
ToNumber(s) ==
    LET IsDigit(c) == c \in {"0", "1", "2", "3", "4", "5", "6", "7", "8", "9"}
        neg == Len(s) > 0 /\ s[1] = "-"
        body == IF neg THEN Tail(s) ELSE s
        dots == {k \in 1..Len(body) : body[k] = "."}
        dot == IF dots = {} THEN Len(body) + 1 ELSE MinOf(dots)
        ip == SubSeq(body, 1, dot - 1)
        fp == SubSeq(body, dot + 1, Len(body))
        valid == /\ Len(ip) + Len(fp) > 0
                 /\ \A k \in 1..Len(ip) : IsDigit(ip[k])
                 /\ \A k \in 1..Len(fp) : IsDigit(fp[k])
    IN  [nan |-> ~valid,
         integer |-> valid /\ \A k \in 1..Len(fp) : fp[k] = "0",
         negative |-> /\ valid /\ neg
                      /\ \E k \in 1..Len(body) : IsDigit(body[k]) /\ body[k] # "0"]

\* JSON text, as the sequence of its lexical tokens
JTok(x) == [t |-> x]

JFail == [ok |-> FALSE]

\* JSON.parse: one value from the head of the tokens, and the tokens left
RECURSIVE ParseValue(_)
RECURSIVE ParseItems(_, _)
RECURSIVE ParseMembers(_, _, _)
ParseValue(ts) ==
    IF ts = <<>> THEN JFail
    ELSE IF ts[1].t \in {"str", "num"}
    THEN [ok |-> TRUE, value |-> ts[1], rest |-> Tail(ts)]
    ELSE IF ts[1].t = "["
    THEN IF Len(ts) >= 2 /\ ts[2].t = "]"
         THEN [ok |-> TRUE, value |-> [t |-> "arr", items |-> <<>>],
               rest |-> SubSeq(ts, 3, Len(ts))]
         ELSE ParseItems(Tail(ts), <<>>)
    ELSE IF ts[1].t = "{"
    THEN IF Len(ts) >= 2 /\ ts[2].t = "}"
         THEN [ok |-> TRUE, value |-> [t |-> "obj", keys |-> <<>>, vals |-> <<>>],
               rest |-> SubSeq(ts, 3, Len(ts))]
         ELSE ParseMembers(Tail(ts), <<>>, <<>>)
    ELSE JFail

ParseItems(ts, acc) ==
    LET v == ParseValue(ts)
    IN  IF ~v.ok THEN JFail
        ELSE IF v.rest = <<>> THEN JFail
        ELSE IF v.rest[1].t = ","
        THEN ParseItems(Tail(v.rest), Append(acc, v.value))
        ELSE IF v.rest[1].t = "]"
        THEN [ok |-> TRUE, value |-> [t |-> "arr", items |-> Append(acc, v.value)],
              rest |-> Tail(v.rest)]
        ELSE JFail

ParseMembers(ts, keys, vals) ==
    IF Len(ts) < 3 THEN JFail
    ELSE IF ts[1].t # "str" \/ ts[2].t # ":" THEN JFail
    ELSE LET v == ParseValue(SubSeq(ts, 3, Len(ts)))
         IN  IF ~v.ok THEN JFail
             ELSE IF v.rest = <<>> THEN JFail
             ELSE IF v.rest[1].t = ","
             THEN ParseMembers(Tail(v.rest), Append(keys, ts[1].v), Append(vals, v.value))
             ELSE IF v.rest[1].t = "}"
             THEN [ok |-> TRUE,
                   value |-> [t |-> "obj", keys |-> Append(keys, ts[1].v),
                              vals |-> Append(vals, v.value)],
                   rest |-> Tail(v.rest)]
             ELSE JFail

JSONParse(ts) ==
    LET v == ParseValue(ts)
    IN  IF v.ok /\ v.rest = <<>> THEN [ok |-> TRUE, value |-> v.value] ELSE JFail

\* the text of one image object
ImageText(url, position) ==
    <<JTok("{"), [t |-> "str", v |-> "url"], JTok(":"), [t |-> "str", v |-> url], JTok(","),
      [t |-> "str", v |-> "position"], JTok(":"), [t |-> "num", v |-> position], JTok("}")>>

EmptyArrayText == <<JTok("["), JTok("]")>>
EmptyObjectText == <<JTok("{"), JTok("}")>>
BrokenText == <<JTok("["), [t |-> "num", v |-> 1], JTok(",")>>
OneImageText == <<JTok("[")>> \o ImageText("u", 0) \o <<JTok("]")>>
TwoImagesText ==
    <<JTok("[")>> \o ImageText("u", 0) \o <<JTok(",")>> \o ImageText("v", 1) \o <<JTok("]")>>

\* the check of one JSON column of a recipe row
JsonColumnErrors(rowNum, field, text) ==
    IF text = <<>> THEN <<>>
    ELSE LET parsed == JSONParse(text)
         IN  IF ~parsed.ok
             THEN <<[row |-> rowNum, field |-> field, message |-> "invalid-json"]>>
             ELSE IF parsed.value.t # "arr"
             THEN <<[row |-> rowNum, field |-> field, message |-> "not-array"]>>
             ELSE <<>>

\* the check numbering the rows from the header line
KeyErrorsFromHeader(rowNum, field, key, seen) ==
    IF key = <<>>
    THEN <<[row |-> rowNum - 1, field |-> field, message |-> "required"]>>
    ELSE IF key \in seen
    THEN <<[row |-> rowNum - 1, field |-> field, message |-> "duplicate"]>>
    ELSE <<>>

\* the required-and-unique check on a key column, with the keys seen so far
KeyErrors(rowNum, field, key, seen) ==
    IF key = <<>>
    THEN <<[row |-> rowNum, field |-> field, message |-> "required"]>>
    ELSE IF key \in seen
    THEN <<[row |-> rowNum, field |-> field, message |-> "duplicate"]>>
    ELSE <<>>

\* validateRecipeRows: the loop from row i on, with the names seen so far
RECURSIVE ValidateRecipeFrom(_, _, _)
ValidateRecipeFrom(rows, i, names) ==
    IF i > Len(rows) THEN <<>>
    ELSE LET row == rows[i]
             rowNum == (i - 1) + 2
             name == Trim(row.name)
             nameErr == KeyErrors(rowNum, "name", name, names)
             names2 == IF nameErr = <<>> THEN names \cup {name} ELSE names
             minutes == Trim(row.cooking_time_minutes)
             n == ToNumber(minutes)
             timeErr ==
                 IF minutes # <<>> /\ (~n.integer \/ n.negative)
                 THEN <<[row |-> rowNum, field |-> "cooking_time_minutes",
                         message |-> "not-integer"]>>
                 ELSE <<>>
         IN  nameErr \o timeErr
                 \o JsonColumnErrors(rowNum, "ingredients", row.ingredients)
                 \o JsonColumnErrors(rowNum, "steps", row.steps)
                 \o JsonColumnErrors(rowNum, "images", row.images)
                 \o ValidateRecipeFrom(rows, i + 1, names2)

validateRecipeRows(rows) == ValidateRecipeFrom(rows, 1, {})

\* validateTagRows: the loop from row i on, with the keys seen so far
RECURSIVE ValidateTagFrom(_, _, _)
ValidateTagFrom(rows, i, keys) ==
    IF i > Len(rows) THEN <<>>
    ELSE LET row == rows[i]
             rowNum == (i - 1) + 2
             key == Trim(row.key)
             keyErr == KeyErrors(rowNum, "key", key, keys)
             keys2 == IF keyErr = <<>> THEN keys \cup {key} ELSE keys
             typeErr ==
                 IF Trim(row.type) = <<>>
                 THEN <<[row |-> rowNum, field |-> "type", message |-> "required"]>>
                 ELSE <<>>
         IN  keyErr \o typeErr \o ValidateTagFrom(rows, i + 1, keys2)

validateTagRows(rows) == ValidateTagFrom(rows, 1, {})

\* parsed data rows of a tags CSV
TagCsvRows ==
    {[key |-> k, type |-> t] :
        k \in {<<"a">>, <<" ", "a">>, <<"b">>, <<>>, <<" ">>},
        t \in {<<"b">>, <<" ">>}}

\* parsed data rows of an affiliates CSV that has a partner column
PartnerCsvRows ==
    {[canonical_name |-> c, link |-> l, aliases |-> <<>>, partner |-> p] :
        c \in {<<"a">>, <<"a", " ">>, <<"b">>, <<>>},
        l \in {<<"1">>, <<" ">>},
        p \in {<<"a">>, <<>>, <<" ">>}}

\* parsed data rows of a recipes CSV
RecipeCsvRows == {
    [name |-> <<"a">>, cooking_time_minutes |-> <<"1", "5">>, ingredients |-> EmptyArrayText,
     steps |-> <<>>, images |-> OneImageText, tags |-> <<"a">>],
    [name |-> <<" ", "b">>, cooking_time_minutes |-> <<>>, ingredients |-> <<>>,
     steps |-> EmptyArrayText, images |-> TwoImagesText, tags |-> <<"a", ",", " ", "b">>],
    [name |-> <<"b">>, cooking_time_minutes |-> <<"1", ".", "0">>, ingredients |-> <<>>,
     steps |-> <<>>, images |-> <<>>, tags |-> <<>>],
    [name |-> <<>>, cooking_time_minutes |-> <<" ">>, ingredients |-> <<>>,
     steps |-> <<>>, images |-> <<>>, tags |-> <<>>],
    [name |-> <<" ">>, cooking_time_minutes |-> <<"-", "1">>, ingredients |-> BrokenText,
     steps |-> <<>>, images |-> <<>>, tags |-> <<>>],
    [name |-> <<"a", " ">>, cooking_time_minutes |-> <<"1", ".", "5">>, ingredients |-> <<>>,
     steps |-> EmptyObjectText, images |-> <<>>, tags |-> <<"b">>],
    [name |-> <<"a">>, cooking_time_minutes |-> <<"a">>, ingredients |-> <<>>,
     steps |-> <<>>, images |-> BrokenText, tags |-> <<>>],
    [name |-> <<"b">>, cooking_time_minutes |-> <<"-", "0">>, ingredients |-> <<>>,
     steps |-> <<>>, images |-> <<>>, tags |-> <<"b", ",", "b">>] }

RowLists(pool) == UNION {[1..n -> pool] : n \in 0..MaxRows}

\* what the validate functions leave alone
besideValidate ==
    <<matchSideVars, importRouteVars, affiliateImportVars, recipeImportVars, serverlessVars>>

\* validateTagRows(rows)
ValidateTags(rows) ==
    /\ validation = NotValidated
    /\ validation' = [kind |-> "tags", key |-> [i \in 1..Len(rows) |-> rows[i].key],
                      rows |-> rows, errors |-> validateTagRows(rows)]
    /\ UNCHANGED besideValidate

\* validateRecipeRows(rows)
ValidateRecipes(rows) ==
    /\ validation = NotValidated
    /\ validation' = [kind |-> "recipes", key |-> [i \in 1..Len(rows) |-> rows[i].name],
                      rows |-> rows, errors |-> validateRecipeRows(rows)]
    /\ UNCHANGED besideValidate

\* validateAffiliateRows(rows)
ValidateAffiliates(rows) ==
    /\ validation = NotValidated
    /\ validation' = [kind |-> "affiliates",
                      key |-> [i \in 1..Len(rows) |-> rows[i].canonical_name],
                      rows |-> rows, errors |-> validateAffiliateRows(rows)]
    /\ UNCHANGED besideValidate

\* the caller has taken the errors
ValidateReturns ==
    /\ validation # NotValidated
    /\ validation' = NotValidated
    /\ UNCHANGED besideValidate

NextValidate ==
    \/ \E rows \in RowLists(TagCsvRows) : ValidateTags(rows)
    \/ \E rows \in RowLists(RecipeCsvRows) : ValidateRecipes(rows)
    \/ \E rows \in RowLists(PartnerCsvRows) : ValidateAffiliates(rows)
    \/ ValidateReturns

SpecValidate == Init /\ [][NextValidate]_vars

-----------------------------------------------------------------------------
(* importAffiliatesCsv beside GET /affiliates/match.  The import runs in    *)
(* three steps: validation and TRUNCATE inside a new transaction; the       *)
(* insert with commit, or a throw with rollback; the return.  TRUNCATE      *)
(* holds an ACCESS EXCLUSIVE lock on the table until the transaction ends,  *)
(* and the three SELECTs of matchIngredient are three statements of their   *)
(* own.                                                                     *)

\* the rows of the files imported while a match call runs
RaceRows == {r \in CsvRows : r.link \in {<<"1">>, <<"6">>}}

\* parseCsvString on a text papaparse reports errors for
ParseErrors == <<[row |-> 2, field |-> "", message |-> "parse"]>>

\* an uploaded file: whether papaparse reports errors for it, whether it has
\* a partner column, and its data rows
RaceFiles ==
    {[malformed |-> m, partner |-> p, rows |-> rows] :
        m \in BOOLEAN, p \in BOOLEAN,
        rows \in UNION {[1..n -> RaceRows] : n \in 0..MaxProducts}}

\* the errors importAffiliatesCsv throws before its transaction
AffiliateFileErrors(file) ==
    IF file.malformed THEN ParseErrors ELSE validateAffiliateRows(file.rows)

\* SELECT waits for the ACCESS EXCLUSIVE lock to be released; the variant
\* lets it read the table under the lock
UnlockedAlways == TRUE

Unlocked == tx.state # "truncated"

\* a match call has a query behind it and its return ahead
MatchInFlight == pc \in {"exact", "alias", "fuzzy", "reply"}

besideAffiliateImport ==
    <<pc, req, normalized, match, response, calls,
      prev, containsVars, recipeVars, importRouteVars, validateVars, recipeImportVars,
      serverlessVars>>

\* `rows.length === 0`, and the test taking every file to the transaction
NoDataRowsIgnored(rows) == FALSE

NoDataRows(rows) == Len(rows) = 0

\* importAffiliatesCsv up to `TRUNCATE TABLE affiliate_products`
ImportBegins(file) ==
    /\ tx = NoTx
    /\ MatchInFlight => Len(history) <= MaxCommits
    /\ IF AffiliateFileErrors(file) # <<>>
       THEN /\ tx' = [state |-> "done", file |-> file, undo |-> catalog,
                      outcome |-> [kind |-> "invalid",
                                   errors |-> AffiliateFileErrors(file)]]
            /\ UNCHANGED catalog
       ELSE IF NoDataRows(file.rows)
       THEN /\ tx' = [state |-> "done", file |-> file, undo |-> catalog,
                      outcome |-> [kind |-> "imported", imported |-> 0]]
            /\ UNCHANGED catalog
       ELSE /\ tx' = [state |-> "truncated", file |-> file, undo |-> catalog]
            /\ catalog' = <<>>
    /\ UNCHANGED history
    /\ UNCHANGED besideAffiliateImport

\* the insert: `a.partner.trim()` throws when the file has no partner column
\* and the transaction rolls back; otherwise the rows go in and it commits
ImportSettles ==
    /\ tx.state = "truncated"
    /\ IF ~tx.file.partner
       THEN /\ catalog' = tx.undo
            /\ tx' = [state |-> "done", file |-> tx.file, undo |-> tx.undo,
                      outcome |-> [kind |-> "failed"]]
            /\ UNCHANGED history
       ELSE /\ catalog' = [i \in 1..Len(tx.file.rows) |-> InsertValue(tx.file.rows[i])]
            /\ tx' = [state |-> "done", file |-> tx.file, undo |-> tx.undo,
                      outcome |-> [kind |-> "imported", imported |-> Len(tx.file.rows)]]
            /\ history' = IF MatchInFlight THEN Append(history, catalog') ELSE <<catalog'>>
    /\ UNCHANGED besideAffiliateImport

\* importAffiliatesCsv has returned or thrown
ImportReturns ==
    /\ tx.state = "done"
    /\ tx' = NoTx
    /\ UNCHANGED <<catalog, history>>
    /\ UNCHANGED besideAffiliateImport

\* GET /affiliates/match while imports run
ReceiveMeanwhile(q) ==
    /\ pc = "idle"
    /\ req' = q
    /\ IF Rejects(q)
       THEN /\ response' = [status |-> 400]
            /\ pc' = "done"
            /\ UNCHANGED <<normalized, calls>>
       ELSE /\ calls' = calls + 1
            /\ normalized' = Normalize(q.text)
            /\ pc' = "exact"
            /\ UNCHANGED response
    /\ history' = <<history[Len(history)]>>
    /\ UNCHANGED <<catalog, match, tx>>
    /\ UNCHANGED <<prev, containsVars, recipeVars, importRouteVars, validateVars,
                   recipeImportVars, serverlessVars>>

ExactMeanwhile == Unlocked /\ ExactQuery
AliasMeanwhile == Unlocked /\ AliasQuery
FuzzyMeanwhile == Unlocked /\ FuzzyQuery

NextConcurrent ==
    \/ \E file \in RaceFiles : ImportBegins(file)
    \/ ImportSettles
    \/ ImportReturns
    \/ \E q \in {r \in Queries : Len(r.text) <= 1} : ReceiveMeanwhile(q)
    \/ ExactMeanwhile
    \/ AliasMeanwhile
    \/ FuzzyMeanwhile
    \/ Reply
    \/ Complete

SpecConcurrent == Init /\ [][NextConcurrent]_vars

-----------------------------------------------------------------------------
(* importTagsCsv and importRecipesCsv on the tables tags, recipes,          *)
(* recipe_images and recipe_tags.  Each transaction starts with a TRUNCATE  *)
(* ... CASCADE that locks recipe_tags, so the two transactions exclude one  *)
(* another and each is taken as one step; the SELECT of the existing tags   *)
(* in importRecipesCsv is a statement of its own before its transaction.    *)
(* affiliate_products shares no row and no lock with these tables; its      *)
(* imports are taken first, and the others once none of them is in flight.  *)

\* the files uploaded to POST /tags/import: files of well-formed rows, a
\* file with a row without key, and a file papaparse reports errors for
ImportTagFiles ==
    LET pool == {r \in TagCsvRows : r.key \in {<<"a">>, <<"b">>} /\ r.type = <<"b">>}
        keyless == {r \in TagCsvRows : r.key = <<>> /\ r.type = <<"b">>}
    IN  {[malformed |-> FALSE, rows |-> rows] : rows \in RowLists(pool)}
        \cup {[malformed |-> FALSE, rows |-> <<r>>] : r \in keyless}
        \cup {[malformed |-> TRUE, rows |-> <<r>>] : r \in keyless}

\* the files uploaded to POST /recipes/import: files of rows with images and
\* tags, a file with an invalid row, a file with a row naming one tag twice,
\* and a file papaparse reports errors for
ImportRecipeFiles ==
    LET pool == {r \in RecipeCsvRows : r.images \in {OneImageText, TwoImagesText}}
        invalid == {r \in RecipeCsvRows : r.images = BrokenText}
        twice == {r \in RecipeCsvRows : r.tags = <<"b", ",", "b">>}
    IN  {[malformed |-> FALSE, rows |-> rows] : rows \in RowLists(pool)}
        \cup {[malformed |-> FALSE, rows |-> <<r>>] : r \in invalid \cup twice}
        \cup {[malformed |-> TRUE, rows |-> <<r>>] : r \in twice}

\* TRUNCATE leaves the sequence of the table where it is (CONTINUE
\* IDENTITY); the variant restarts it
SerialRestarted(next) == 1

SerialAfterTruncate(next) == next

\* row.tags.split(',').map((k) => k.trim()), for a row that has tags
TagKeys(row) ==
    IF Trim(row.tags) = <<>> THEN <<>>
    ELSE LET parts == Split(row.tags, ",")
         IN  [k \in 1..Len(parts) |-> Trim(parts[k])]

\* the concatenation of a sequence of sequences
RECURSIVE Concat(_)
Concat(ss) == IF ss = <<>> THEN <<>> ELSE Head(ss) \o Concat(Tail(ss))

\* tagKeyToId.has(key) and tagKeyToId.get(key), on the rows read from tags
IdOfKey(tagRows, key) ==
    LET k == CHOOSE k \in 1..Len(tagRows) : tagRows[k].key = key
    IN  tagRows[k].id

\* the unknown-tag errors of data row i
UnknownTagErrors(rows, tagRows, i) ==
    LET keys == TagKeys(rows[i])
        Err(k) == IF \E t \in 1..Len(tagRows) : tagRows[t].key = keys[k] THEN <<>>
                  ELSE <<[row |-> (i - 1) + 2, field |-> "tags", message |-> "unknown"]>>
    IN  Concat([k \in 1..Len(keys) |-> Err(k)])

\* item.url, item.position of a parsed image item
Member(item, name) ==
    IF item.t # "obj" THEN [t |-> "undefined"]
    ELSE LET at == {k \in 1..Len(item.keys) : item.keys[k] = name}
         IN  IF at = {} THEN [t |-> "undefined"] ELSE item.vals[MaxOf(at)]

\* the recipe_images values for data row i, given the id of its recipe
ImageValues(row, recipeId) ==
    IF row.images = <<>> THEN <<>>
    ELSE LET items == JSONParse(row.images).value.items
         IN  [k \in 1..Len(items) |->
                 [recipeId |-> recipeId,
                  url |-> Member(items[k], "url"),
                  position |-> Member(items[k], "position")]]

\* the recipe_tags values for data row i, given the id of its recipe
RecipeTagValues(row, recipeId, tagRows) ==
    LET keys == TagKeys(row)
    IN  [k \in 1..Len(keys) |->
            [recipeId |-> recipeId, tagId |-> IdOfKey(tagRows, keys[k])]]

\* the id RETURNING gives for data row i: the rows of one INSERT ... VALUES
\* take their ids from the sequence in the order of the values; the variant
\* hands the first two rows one another's id
ReturnedIdSwapped(first, i) ==
    IF i = 1 THEN first + 1 ELSE IF i = 2 THEN first ELSE first + (i - 1)

ReturnedId(first, i) == first + (i - 1)

\* constraints the inserts of importRecipesCsv can violate: the foreign keys
\* of recipe_tags.tag_id and of recipe_id in both tables, the primary key of
\* recipe_tags, and NOT NULL of recipe_images.url
ViolatesConstraint(tagRowsNow, recipeRows, imageValues, tagValues) ==
    \/ \E k \in 1..Len(tagValues) :
           \A j \in 1..Len(tagRowsNow) : tagRowsNow[j].id # tagValues[k].tagId
    \/ \E k \in 1..Len(tagValues) :
           \A j \in 1..Len(recipeRows) : recipeRows[j].id # tagValues[k].recipeId
    \/ \E k \in 1..Len(imageValues) :
           \A j \in 1..Len(recipeRows) : recipeRows[j].id # imageValues[k].recipeId
    \/ \E k, j \in 1..Len(tagValues) : k # j /\ tagValues[k] = tagValues[j]
    \/ \E k \in 1..Len(imageValues) : imageValues[k].url.t # "str"

besideRecipeImport ==
    <<matchSideVars, importRouteVars, validateVars, affiliateImportVars, serverlessVars>>

\* importTagsCsv with the TRUNCATE ahead of the validation
ImportTagsTruncatingFirst(file) ==
    /\ tx = NoTx
    /\ db.tagSerial + Len(file.rows) - 1 <= MaxSerial
    /\ LET errors == IF file.malformed THEN ParseErrors ELSE validateTagRows(file.rows)
           first == SerialAfterTruncate(db.tagSerial)
       IN  IF errors # <<>>
           THEN /\ tagsImport' = [state |-> "done", file |-> file,
                                  outcome |-> [kind |-> "invalid", errors |-> errors]]
                /\ db' = [db EXCEPT !.tags = <<>>, !.recipeTags = <<>>]
           ELSE /\ db' = [db EXCEPT
                            !.tags = [i \in 1..Len(file.rows) |->
                                         [id |-> first + (i - 1),
                                          key |-> Trim(file.rows[i].key),
                                          type |-> Trim(file.rows[i].type)]],
                            !.recipeTags = <<>>,
                            !.tagSerial = first + Len(file.rows)]
                /\ tagsImport' = [state |-> "done", file |-> file,
                                  outcome |-> [kind |-> "imported",
                                               imported |-> Len(file.rows)]]
    /\ UNCHANGED recipesImport
    /\ UNCHANGED besideRecipeImport

\* importTagsCsv(db, csvContent)
ImportTags(file) ==
    /\ tx = NoTx
    /\ db.tagSerial + Len(file.rows) - 1 <= MaxSerial
    /\ LET errors == IF file.malformed THEN ParseErrors ELSE validateTagRows(file.rows)
           first == SerialAfterTruncate(db.tagSerial)
       IN  IF errors # <<>>
           THEN /\ tagsImport' = [state |-> "done", file |-> file,
                                  outcome |-> [kind |-> "invalid", errors |-> errors]]
                /\ UNCHANGED db
           ELSE IF NoDataRows(file.rows)
           THEN /\ tagsImport' = [state |-> "done", file |-> file,
                                  outcome |-> [kind |-> "imported", imported |-> 0]]
                /\ UNCHANGED db
           ELSE /\ db' = [db EXCEPT
                            !.tags = [i \in 1..Len(file.rows) |->
                                         [id |-> first + (i - 1),
                                          key |-> Trim(file.rows[i].key),
                                          type |-> Trim(file.rows[i].type)]],
                            !.recipeTags = <<>>,
                            !.tagSerial = first + Len(file.rows)]
                /\ tagsImport' = [state |-> "done", file |-> file,
                                  outcome |-> [kind |-> "imported",
                                               imported |-> Len(file.rows)]]
    /\ UNCHANGED recipesImport
    /\ UNCHANGED besideRecipeImport

\* importRecipesCsv up to its transaction: parse, validate, read the existing
\* tags, check the tag keys of the rows
RecipesRead(file) ==
    /\ recipesImport = NoJob
    /\ tx = NoTx
    /\ LET errors == IF file.malformed THEN ParseErrors ELSE validateRecipeRows(file.rows)
           tagErrors == Concat([i \in 1..Len(file.rows) |->
                                   UnknownTagErrors(file.rows, db.tags, i)])
       IN  recipesImport' =
               IF errors # <<>>
               THEN [state |-> "done", file |-> file,
                     outcome |-> [kind |-> "invalid", errors |-> errors]]
               ELSE IF tagErrors # <<>>
               THEN [state |-> "done", file |-> file,
                     outcome |-> [kind |-> "invalid", errors |-> tagErrors]]
               ELSE IF NoDataRows(file.rows)
               THEN [state |-> "done", file |-> file,
                     outcome |-> [kind |-> "imported", imported |-> 0]]
               ELSE [state |-> "ready", file |-> file, tagKeyToId |-> db.tags]
    /\ UNCHANGED <<db, tagsImport>>
    /\ UNCHANGED besideRecipeImport

\* the transaction of importRecipesCsv: TRUNCATE recipes CASCADE, the insert
\* of the recipes, of their images and of their tags; a violated constraint
\* rolls all of it back, but not the sequence
RecipesWrite ==
    /\ recipesImport.state = "ready"
    /\ db.recipeSerial + Len(recipesImport.file.rows) - 1 <= MaxSerial
    /\ LET rows == recipesImport.file.rows
           first == SerialAfterTruncate(db.recipeSerial)
           insertedRecipes == [i \in 1..Len(rows) |->
                                  [id |-> first + (i - 1), name |-> Trim(rows[i].name)]]
           allImageValues ==
               Concat([i \in 1..Len(rows) |-> ImageValues(rows[i], ReturnedId(first, i))])
           allRecipeTagValues ==
               Concat([i \in 1..Len(rows) |->
                          RecipeTagValues(rows[i], ReturnedId(first, i),
                                          recipesImport.tagKeyToId)])
       IN  IF ViolatesConstraint(db.tags, insertedRecipes, allImageValues, allRecipeTagValues)
           THEN /\ db' = [db EXCEPT !.recipeSerial = first + Len(rows)]
                /\ recipesImport' = [state |-> "done", file |-> recipesImport.file,
                                     outcome |-> [kind |-> "failed"]]
           ELSE /\ db' = [db EXCEPT !.recipes = insertedRecipes,
                                    !.images = allImageValues,
                                    !.recipeTags = allRecipeTagValues,
                                    !.recipeSerial = first + Len(rows)]
                /\ recipesImport' = [state |-> "done", file |-> recipesImport.file,
                                     outcome |-> [kind |-> "imported",
                                                  imported |-> Len(rows)]]
    /\ UNCHANGED tagsImport
    /\ UNCHANGED besideRecipeImport

\* importRecipesCsv has returned or thrown
RecipesReturn ==
    /\ recipesImport.state = "done"
    /\ recipesImport' = NoJob
    /\ UNCHANGED <<db, tagsImport>>
    /\ UNCHANGED besideRecipeImport

\* importAffiliatesCsv, with no match call and no recipes import in flight
AffiliatesBegin(file) ==
    /\ pc = "idle"
    /\ db = EmptyDb /\ recipesImport = NoJob /\ tagsImport = NoJob
    /\ ImportBegins(file)

NextImports ==
    \/ \E file \in ImportTagFiles : ImportTags(file)
    \/ \E file \in ImportRecipeFiles : RecipesRead(file)
    \/ RecipesWrite
    \/ RecipesReturn
    \/ \E file \in {f \in RaceFiles : /\ \A i \in 1..Len(f.rows) : f.rows[i].link = <<"1">>
                                      /\ f.malformed => Len(f.rows) = 1} :
           AffiliatesBegin(file)
    \/ ImportSettles
    \/ ImportReturns

SpecImports == Init /\ [][NextImports]_vars

-----------------------------------------------------------------------------
(* The serverless entry point api/index.ts: one instance of the function,   *)
(* its module variable appPromise, and handler invocations that overlap at  *)
(* their awaits.  The code between two awaits runs without interruption.    *)

\* `if (!appPromise)`, and the test that never finds the promise
MustBuildAlways(p) == TRUE

MustBuild(p) == ~p.set

besideServerless ==
    <<matchSideVars, importRouteVars, validateVars, affiliateImportVars, recipeImportVars>>

\* handler(req, res) up to `await getApp()`: getApp runs to its return
Invoke(i, body) ==
    /\ invocations[i] = NotInvoked
    /\ IF MustBuild(appPromise)
       THEN /\ builds' = builds + 1
            /\ appPromise' = [set |-> TRUE, id |-> builds + 1, state |-> "pending"]
       ELSE UNCHANGED <<builds, appPromise>>
    /\ invocations' = [invocations EXCEPT ![i] =
           [at |-> "awaitApp", body |-> body, awaited |-> appPromise'.id, app |-> 0,
            payload |-> Absent]]
    /\ UNCHANGED besideServerless

\* the promise of buildApp settles: with the app, or with an error of a plugin
BuildSettles(ok) ==
    /\ appPromise.set
    /\ appPromise.state = "pending"
    /\ appPromise' = [appPromise EXCEPT !.state = IF ok THEN "fulfilled" ELSE "rejected"]
    /\ UNCHANGED <<builds, invocations>>
    /\ UNCHANGED besideServerless

\* `const app = await getApp()` resumes, or throws
Resume(i) ==
    /\ invocations[i].at = "awaitApp"
    /\ appPromise.state # "pending"
    /\ invocations' = [invocations EXCEPT ![i] =
           IF appPromise.state = "fulfilled"
           THEN [@ EXCEPT !.at = "readRawBody", !.app = invocations[i].awaited]
           ELSE [@ EXCEPT !.at = "thrown"]]
    /\ UNCHANGED <<appPromise, builds>>
    /\ UNCHANGED besideServerless

\* `const rawBody = await readRawBody(req)`
ReadRawBody(i) ==
    /\ invocations[i].at = "readRawBody"
    /\ invocations' = [invocations EXCEPT ![i].at = "inject"]
    /\ UNCHANGED <<appPromise, builds>>
    /\ UNCHANGED besideServerless

\* `const response = await app.inject(injectOpts)` and res.send
InjectAndSend(i) ==
    /\ invocations[i].at = "inject"
    /\ invocations' = [invocations EXCEPT ![i] =
           [@ EXCEPT !.at = "sent",
                     !.payload = IF Len(invocations[i].body) > 0
                                 THEN Given(invocations[i].body) ELSE Absent]]
    /\ UNCHANGED <<appPromise, builds>>
    /\ UNCHANGED besideServerless

\* the invocation is over
Return(i) ==
    /\ invocations[i].at \in {"sent", "thrown"}
    /\ invocations' = [invocations EXCEPT ![i] = NotInvoked]
    /\ UNCHANGED <<appPromise, builds>>
    /\ UNCHANGED besideServerless

NextServerless ==
    \* the request bodies: none, some bytes
    \/ \E i \in 1..MaxInvocations, body \in {<<>>, <<"a">>} : Invoke(i, body)
    \/ \E ok \in BOOLEAN : BuildSettles(ok)
    \/ \E i \in 1..MaxInvocations : Resume(i)
    \/ \E i \in 1..MaxInvocations : ReadRawBody(i)
    \/ \E i \in 1..MaxInvocations : InjectAndSend(i)
    \/ \E i \in 1..MaxInvocations : Return(i)

SpecServerless == Init /\ [][NextServerless]_vars

-----------------------------------------------------------------------------
(* Vocabulary of the properties *)

\* matchIngredient has settled for the request in flight
Settled == match.kind # "none"

IsMatch(t) == match.kind = "match" /\ match.matchType = t

\* canonical names pairwise distinct, compared case-insensitively
UniqueNames(rows) ==
    \A i, j \in 1..Len(rows) :
        i # j => ToLower(rows[i].canonicalName) # ToLower(rows[j].canonicalName)

\* the products whose canonical name is the text n, letter case aside
NameOwners(rows, n) == {i \in 1..Len(rows) : ToLower(rows[i].canonicalName) = n}

\* the products that list the text n as an alias, letter case aside
AliasOwners(rows, n) ==
    {i \in 1..Len(rows) :
        /\ ~rows[i].aliases.isNull
        /\ \E k \in 1..Len(rows[i].aliases.items) : ToLower(rows[i].aliases.items[k]) = n}

\* C1: in a catalog with unique canonical names, the canonical name of a
\* product P, in any letter casing, matches P with matchType 'exact'.
C1_CanonicalNameMatchesExact ==
    \A i \in 1..Len(catalog) :
        (/\ Settled
         /\ UniqueNames(catalog)
         /\ ToLower(req.text) = ToLower(catalog[i].canonicalName))
        => match = Found(catalog[i], "exact")

\* C2: matchType 'exact' is returned only when the trimmed, lower-cased
\* ingredient equals the lower-cased canonical name of the returned product.
C2_ExactOnlyOnEquality ==
    IsMatch("exact") => Normalize(req.text) = ToLower(match.product.canonicalName)

\* C3: an alias a of product P, in any letter casing, matches P with
\* matchType 'alias', provided no canonical name equals a after
\* normalization (read with P the only product that lists a).
C3_AliasMatchesOwner ==
    \A i \in 1..Len(catalog) :
        (/\ Settled
         /\ i \in AliasOwners(catalog, ToLower(req.text))
         /\ AliasOwners(catalog, ToLower(req.text)) = {i}
         /\ NameOwners(catalog, Normalize(req.text)) = {})
        => match = Found(catalog[i], "alias")

\* C4: when two or more products list the same normalized alias, the alias
\* match returns the one that comes first in catalog order.
C4_SharedAliasFirstInOrder ==
    (/\ IsMatch("alias")
     /\ Cardinality(AliasOwners(catalog, Normalize(req.text))) >= 2
     /\ NameOwners(catalog, Normalize(req.text)) = {})
    => match.product = catalog[MinOf(AliasOwners(catalog, Normalize(req.text)))]

\* C5: 'alias' is returned only if no canonical name equals the normalized
\* ingredient, and 'fuzzy' only if neither an exact nor an alias match exists.
C5_StrictPriority ==
    /\ IsMatch("alias") => NameOwners(catalog, Normalize(req.text)) = {}
    /\ IsMatch("fuzzy") =>
           /\ NameOwners(catalog, Normalize(req.text)) = {}
           /\ AliasOwners(catalog, Normalize(req.text)) = {}

\* C6: the matcher is total: whenever it is called it settles with a match
\* or a fallback result, never with an absent result and never by failing.
C6_MatcherIsTotal ==
    pc \in {"reply", "done"} /\ calls > 0 => match.kind = "match"

\* no query of the pipeline selects a row for the request in flight
NoStrategyMatches ==
    /\ ~ExactFails(catalog, Normalize(req.text))
    /\ ExactHits(catalog, Normalize(req.text)) = {}
    /\ AliasHits(catalog, Normalize(req.text)) = {}
    /\ FuzzyHits(catalog, Normalize(req.text)) = {}

C8_StatusFollowsMatch ==
    pc = "done" =>
        /\ match.kind = "undefined" => response = [status |-> 404]
        /\ match.kind = "match" =>
               response = [status |-> 200, product |-> match.product,
                           matchType |-> match.matchType]

C8_Witness ==
    /\ pc = "done"
    /\ match.kind = "undefined"
    /\ response.status = 404
    /\ req.text # <<>>

\* C9: an absent or over-long ingredient is answered 400 without a call of
\* matchIngredient; an ingredient of 1 to 200 characters is matched once.
C9_ValidationGuardsTheCall ==
    pc # "idle" =>
        /\ (~req.given \/ Len(req.text) > MaxIngredientLength) =>
               /\ calls = 0
               /\ match = NoMatchYet
               /\ response = [status |-> 400]
        /\ (req.given /\ Len(req.text) \in 1..MaxIngredientLength) =>
               /\ calls = 1
               /\ pc = "done" => response.status # 400

C9_Witness ==
    /\ pc = "done"
    /\ req.given
    /\ Len(req.text) = MaxIngredientLength
    /\ calls = 1

\* C10: an ingredient that is empty after trimming is rejected as a
\* validation error and the matcher is never called with it.
C10_BlankIsRejected ==
    (pc # "idle" /\ req.given /\ Trim(req.text) = <<>>) =>
        /\ calls = 0
        /\ response = [status |-> 400]

-----------------------------------------------------------------------------
(* Properties of two requests in a row, over SpecTwice *)

\* the second call of matchIngredient has settled and the first one is kept
BothSettled == prev.given /\ Settled

\* one text is the upper-cased and the other the lower-cased form of a name
UpperAndLower(x, y) ==
    \/ x = ToUpper(y) /\ y = ToLower(x)
    \/ y = ToUpper(x) /\ x = ToLower(y)

\* C11: matchIngredient on the upper-cased name and on the lower-cased name
\* return the same matchType and the same product.
C11_CaseInsensitive ==
    (BothSettled /\ UpperAndLower(prev.text, req.text)) => match = prev.match

\* C12: a name and the same name padded with leading or trailing whitespace
\* produce the same match result.
C12_PaddingIgnored ==
    (/\ BothSettled
     /\ req.text # prev.text
     /\ Trim(req.text) = Trim(prev.text))
    => match = prev.match

\* C13: two calls with the same name against an unchanged catalog return
\* identical results, also when several rows satisfy the same strategy.
C13_Deterministic ==
    (BothSettled /\ req.text = prev.text) => match = prev.match

-----------------------------------------------------------------------------
(* Properties of the single stages *)

\* the word_similarity score of row i for the request in flight
ScoreOf(i) == WordSimilarity(Normalize(req.text), catalog[i].canonicalName)

\* the rows of the catalog no other row scores above
TopScored == {i \in 1..Len(catalog) : \A j \in 1..Len(catalog) : ~ScoreLess(ScoreOf(i), ScoreOf(j))}

\* C14: the fuzzy stage returns a product only if its score is strictly
\* above 0.4; the returned product has the maximal score of the catalog,
\* and among products of equal maximal score it is the first in catalog order.
C14_FuzzyBestFirstInOrder ==
    IsMatch("fuzzy") =>
        /\ \E i \in TopScored :
               /\ match.product = catalog[i]
               /\ 5 * ScoreOf(i).num > 2 * ScoreOf(i).den
        /\ match.product = catalog[MinOf(TopScored)]

\* the candidates of the contains stage for the ingredient in hand, and
\* those of them with the longest canonical name
Candidates == ContainsCandidates(allAffiliates, Normalize(ing.name))

LongestCandidates ==
    {i \in Candidates : \A j \in Candidates :
        Len(allAffiliates[i].canonicalName) >= Len(allAffiliates[j].canonicalName)}

-----------------------------------------------------------------------------
(* Properties of the pipeline as a whole and of the stored catalog *)

\* C16: every result of the deployed matcher carries a matchType of one
\* pipeline: 'contains' never occurs beside 'fuzzy', and the types that
\* occur are among exact, alias and fuzzy.
C16_OnePipeline ==
    match.kind = "match" =>
        /\ match.matchType \in {"exact", "alias", "fuzzy"}
        /\ match.matchType # "contains"

C16_Witness == pc = "done" /\ IsMatch("fuzzy") /\ response.status = 200

C18_NamesDistinctIgnoringCase == UniqueNames(catalog)

-----------------------------------------------------------------------------
(* Properties of GET /recipes/:id/with-affiliates, over SpecRecipe *)

\* the route has replied 200 with the enriched recipe
Enriched200 == rpc = "done" /\ recipeResponse.status = 200

\* the rows the stage named t selects for the normalized text n
StageHits(rows, n, t) ==
    IF t = "exact" THEN ExactHits(rows, n)
    ELSE IF t = "alias" THEN AliasHits(rows, n)
    ELSE IF t = "fuzzy" THEN FuzzyHits(rows, n)
    ELSE {}

\* the affiliate fields of the entry e are a result of matching the name
AnswersName(e, name) ==
    IF e.affiliateMatchType = JsNull
    THEN /\ e.affiliateLink = JsNull
         /\ \A t \in {"exact", "alias", "fuzzy"} :
                StageHits(catalog, Normalize(name), t) = {}
    ELSE \E r \in StageHits(catalog, Normalize(name), e.affiliateMatchType.value) :
             e.affiliateLink = Js(catalog[r].link)

\* C19: the ingredients are matched concurrently; the enriched ingredient at
\* each position carries the match result of that position's own name, and
\* the output order is the recipe's ingredient order, whatever the order in
\* which the matches complete.
C19_PositionsKeepTheirOwnMatch ==
    Enriched200 =>
        /\ Len(recipeResponse.ingredients) = Len(recipe.ingredients)
        /\ \A i \in 1..Len(recipe.ingredients) :
               /\ recipeResponse.ingredients[i].name = recipe.ingredients[i].name
               /\ AnswersName(recipeResponse.ingredients[i], recipe.ingredients[i].name)

\* the matches completed in the reverse of the ingredient order
C19_Witness ==
    /\ Enriched200
    /\ finished = <<2, 1>>
    /\ recipe.ingredients[1].name # recipe.ingredients[2].name
    /\ recipeResponse.ingredients[1].affiliateMatchType
           # recipeResponse.ingredients[2].affiliateMatchType

\* C20: the route returns exactly one enriched entry per recipe ingredient,
\* with every original field unchanged, with affiliateLink and
\* affiliateMatchType set to the matched product's link and the match type
\* when a match exists, and both null when none exists.
C20_OneEnrichedEntryPerIngredient ==
    Enriched200 =>
        /\ DOMAIN recipeResponse.ingredients = DOMAIN recipe.ingredients
        /\ \A i \in DOMAIN recipe.ingredients :
               LET e == recipeResponse.ingredients[i]
                   m == tasks[i].match
               IN  /\ DOMAIN e = DOMAIN recipe.ingredients[i]
                                    \cup {"affiliateLink", "affiliateMatchType"}
                   /\ \A f \in DOMAIN recipe.ingredients[i] :
                          e[f] = recipe.ingredients[i][f]
                   /\ m.kind = "match" =>
                          /\ e.affiliateLink = Js(m.product.link)
                          /\ e.affiliateMatchType = Js(m.matchType)
                   /\ m.kind = "undefined" =>
                          /\ e.affiliateLink = JsNull
                          /\ e.affiliateMatchType = JsNull

\* one ingredient with a match and one without
C20_Witness ==
    /\ Enriched200
    /\ \E i, j \in 1..Len(tasks) :
           /\ tasks[i].match.kind = "match"
           /\ tasks[j].match.kind = "undefined"
           /\ recipeResponse.ingredients[i].affiliateLink # JsNull
           /\ recipeResponse.ingredients[j].affiliateLink = JsNull

-----------------------------------------------------------------------------
(* Properties of the import routes, over SpecImportRoute *)

-----------------------------------------------------------------------------
(* Properties of the validate functions, over SpecValidate *)

\* the errors reported for data row i (1-based) that satisfy want
ErrorsAt(i, want(_)) ==
    {k \in 1..Len(validation.errors) :
        validation.errors[k].row = i + 1 /\ want(validation.errors[k])}

IsPartnerRequired(e) == e.field = "partner" /\ e.message = "required"
IsDuplicate(e) == e.message = "duplicate"
IsAny(e) == TRUE

\* the trimmed key of data row i (1-based)
KeyAt(i) == Trim(validation.key[i])

\* C22: validateAffiliateRows reports field 'partner', message 'partner is
\* required' for every row whose partner is empty after trimming, and no
\* error for a row with non-empty canonical_name, link and partner whose
\* canonical_name was not seen before.
C22_PartnerRequired ==
    validation.kind = "affiliates" =>
        \A i \in 1..Len(validation.rows) :
            LET row == validation.rows[i]
            IN  /\ Trim(row.partner) = <<>> => ErrorsAt(i, IsPartnerRequired) # {}
                /\ ( /\ Trim(row.canonical_name) # <<>>
                     /\ Trim(row.link) # <<>>
                     /\ Trim(row.partner) # <<>>
                     /\ \A j \in 1..(i - 1) : KeyAt(j) # KeyAt(i) )
                   => ErrorsAt(i, IsAny) = {}


\* the name of the key column of the rows validated
KeyField ==
    IF validation.kind = "tags" THEN "key"
    ELSE IF validation.kind = "recipes" THEN "name"
    ELSE "canonical_name"

IsKeyRequired(e) == e.field = KeyField /\ e.message = "required"

\* the texts among the JSON columns' values that are JSON arrays
ArrayTexts == {EmptyArrayText, OneImageText, TwoImagesText}

\* data row i (1-based) has the defect that error e names
Offends(i, e) ==
    /\ i \in 1..Len(validation.rows)
    /\ LET row == validation.rows[i]
       IN  IF e.message = "required" THEN Trim(row[e.field]) = <<>>
           ELSE IF e.message = "duplicate"
           THEN e.field = KeyField /\ \E j \in 1..(i - 1) : KeyAt(j) = KeyAt(i)
           ELSE IF e.message = "not-integer"
           THEN LET n == ToNumber(Trim(row.cooking_time_minutes))
                IN  e.field = "cooking_time_minutes" /\ (~n.integer \/ n.negative)
           ELSE IF e.message = "invalid-json"
           THEN row[e.field] = BrokenText
           ELSE IF e.message = "not-array"
           THEN row[e.field] = EmptyObjectText
           ELSE FALSE

\* every error carries the zero-based index of its row plus 2, and a row
\* whose key is empty has its error under that number
RowNumbersRight ==
    /\ \A k \in 1..Len(validation.errors) :
           Offends((validation.errors[k].row - 2) + 1, validation.errors[k])
    /\ \A i \in 1..Len(validation.rows) :
           KeyAt(i) = <<>> => ErrorsAt(i, IsKeyRequired) # {}

\* C23 as stated: every error carries row = zero-based index + 2, every row
\* whose trimmed key equals an earlier row's yields exactly one 'duplicate'
\* error, and a first occurrence yields none.
C23_DuplicateForEveryRepeat ==
    validation.kind # "none" =>
        /\ RowNumbersRight
        /\ \A i \in 1..Len(validation.rows) :
               Cardinality(ErrorsAt(i, IsDuplicate)) =
                   IF \E j \in 1..(i - 1) : KeyAt(j) = KeyAt(i) THEN 1 ELSE 0

\* C23: in validateRecipeRows, validateAffiliateRows and validateTagRows
\* every error carries row = zero-based index + 2; every row whose trimmed
\* key is not empty and equals an earlier row's yields exactly one
\* 'duplicate' error, and every other row yields none.
C23_DuplicateForEveryRepeatedKey ==
    validation.kind # "none" =>
        /\ RowNumbersRight
        /\ \A i \in 1..Len(validation.rows) :
               Cardinality(ErrorsAt(i, IsDuplicate)) =
                   IF KeyAt(i) # <<>> /\ \E j \in 1..(i - 1) : KeyAt(j) = KeyAt(i)
                   THEN 1 ELSE 0

C23_Witness ==
    /\ validation.kind = "recipes"
    /\ Len(validation.rows) = 2
    /\ KeyAt(1) = KeyAt(2)
    /\ validation.key[1] # validation.key[2]
    /\ Cardinality(ErrorsAt(2, IsDuplicate)) = 1
    /\ ErrorsAt(1, IsAny) = {}
    /\ Cardinality(ErrorsAt(2, IsAny)) = 1

-----------------------------------------------------------------------------
(* Properties of importAffiliatesCsv beside the match route, over           *)
(* SpecConcurrent *)

\* what the pipeline of matchIngredient may return for n on the table rows
PipelineResults(rows, n, name) ==
    IF ExactFails(rows, n) THEN {Thrown}
    ELSE IF ExactHits(rows, n) # {}
    THEN {Found(rows[i], "exact") : i \in FirstRow(ExactHits(rows, n))}
    ELSE IF AliasHits(rows, n) # {}
    THEN {Found(rows[i], "alias") : i \in FirstRow(AliasHits(rows, n))}
    ELSE IF FuzzyHits(rows, n) # {}
    THEN {Found(rows[i], "fuzzy") : i \in FirstRow(FuzzyHits(rows, n))}
    ELSE {FinalReturn(name)}

\* C24: every result of matchIngredient is the pipeline's result on a single
\* catalog snapshot: on the catalog before or the catalog after an import
\* that commits between the queries of the call.
C24_ResultOfOneSnapshot ==
    pc = "reply" =>
        \E k \in 1..Len(history) :
            match \in PipelineResults(history[k], normalized, req.text)


\* the insert values of the rows of a file, as the table must hold them
HoldsTrimmed(table, rows) ==
    /\ Len(table) = Len(rows)
    /\ \A i \in 1..Len(rows) :
           /\ table[i].canonicalName = Trim(rows[i].canonical_name)
           /\ table[i].link = Trim(rows[i].link)

\* a query of matchIngredient reads the table in this step
QueryReads == pc \in {"exact", "alias", "fuzzy"} /\ pc' # pc

\* C25: importAffiliatesCsv replaces the catalog atomically: after a
\* successful import of n >= 1 rows the table holds exactly the n trimmed CSV
\* rows and the returned count is n; if the insert fails after the truncate
\* the table keeps its previous contents; and no query of a concurrent
\* reader reads the table between the truncate and the insert: what it reads
\* is the catalog last committed.
C25_CatalogReplacedAtomically ==
    /\ [](tx.state = "done" =>
            /\ (tx.outcome.kind = "imported" /\ Len(tx.file.rows) >= 1) =>
                   /\ HoldsTrimmed(catalog, tx.file.rows)
                   /\ tx.outcome.imported = Len(tx.file.rows)
            /\ tx.outcome.kind = "failed" => catalog = tx.undo)
    /\ [][QueryReads => catalog = history[Len(history)]]_vars

C25_Witness ==
    /\ tx.state = "done"
    /\ tx.outcome.kind = "failed"
    /\ Len(tx.undo) = 2
    /\ catalog = tx.undo
    /\ pc = "fuzzy"

-----------------------------------------------------------------------------
(* Properties of the three imports, over SpecImports *)

\* this step ends a call of an import, job being its record
Ends(job, jobAfter) == jobAfter # job /\ jobAfter.state = "done"

\* this step leaves every table as it was
TablesUntouched == db' = db /\ catalog' = catalog

\* C26: validation precedes mutation: when an import raises
\* CsvValidationError (parse error, row validation error, unknown tag key)
\* no table has been truncated or written.
C26_InvalidFileTouchesNoTable ==
    [][ ( \/ Ends(tagsImport, tagsImport') /\ tagsImport'.outcome.kind = "invalid"
          \/ Ends(recipesImport, recipesImport') /\ recipesImport'.outcome.kind = "invalid"
          \/ Ends(tx, tx') /\ tx'.outcome.kind = "invalid" )
        => TablesUntouched ]_vars

C26_Witness ==
    /\ recipesImport.state = "done"
    /\ recipesImport.outcome.kind = "invalid"
    /\ recipesImport.outcome.errors[1].field = "tags"
    /\ db.recipes # <<>>
    /\ db.recipeTags # <<>>
    /\ tagsImport.state = "done"
    /\ tagsImport.outcome.kind = "invalid"
    /\ tagsImport.file.malformed

\* the file has a header and no data row
HeaderOnly(file) == ~file.malformed /\ file.rows = <<>>

NothingImported == [kind |-> "imported", imported |-> 0]

\* C27: an import of a file with a header and no data rows returns
\* imported = 0 and leaves the target table and its dependent tables as they
\* were, for tags, recipes and affiliates.
C27_HeaderOnlyFileImportsNothing ==
    [][ /\ (Ends(tagsImport, tagsImport') /\ HeaderOnly(tagsImport'.file))
            => (tagsImport'.outcome = NothingImported /\ TablesUntouched)
        /\ (Ends(recipesImport, recipesImport') /\ HeaderOnly(recipesImport'.file))
            => (recipesImport'.outcome = NothingImported /\ TablesUntouched)
        /\ (Ends(tx, tx') /\ HeaderOnly(tx'.file))
            => (tx'.outcome = NothingImported /\ TablesUntouched) ]_vars

C27_Witness ==
    /\ tagsImport.state = "done"
    /\ HeaderOnly(tagsImport.file)
    /\ tagsImport.outcome = NothingImported
    /\ Len(db.tags) = 2
    /\ Len(db.recipeTags) = 3
    /\ catalog # <<>>

\* importRecipesCsv has returned a count for a file with data rows
RecipesImported ==
    /\ recipesImport.state = "done"
    /\ recipesImport.outcome.kind = "imported"
    /\ recipesImport.file.rows # <<>>

\* the keys of the rows of table tags that have this id
KeysOfTag(tagId) == {db.tags[k].key : k \in {j \in 1..Len(db.tags) : db.tags[j].id = tagId}}

\* the tag keys listed in the CSV row of the recipe with this id
KeysListedFor(recipeId) ==
    UNION { {TagKeys(recipesImport.file.rows[j])[k] :
                k \in 1..Len(TagKeys(recipesImport.file.rows[j]))} :
            j \in {j \in 1..Len(recipesImport.file.rows) :
                      \E i \in 1..Len(db.recipes) :
                          /\ db.recipes[i].id = recipeId
                          /\ db.recipes[i].name = Trim(recipesImport.file.rows[j].name)} }

\* C28: after every successful importRecipesCsv each recipe_tags row refers
\* to an existing tag whose key is listed in that recipe's CSV row, also when
\* importTagsCsv commits between the read of the existing tags and the
\* insert transaction.
C28_RecipeTagsNameListedTags ==
    /\ \A k \in 1..Len(db.recipeTags) : KeysOfTag(db.recipeTags[k].tagId) # {}
    /\ RecipesImported =>
           \A k \in 1..Len(db.recipeTags) :
               /\ KeysOfTag(db.recipeTags[k].tagId) # {}
               /\ KeysOfTag(db.recipeTags[k].tagId)
                      \subseteq KeysListedFor(db.recipeTags[k].recipeId)

C28_Witness ==
    /\ RecipesImported
    /\ Len(db.recipeTags) = 3
    /\ db.tags[1].id > 1
    /\ db.recipes[1].id > 1

\* the images a column text lists, as pairs of url and position
ImagesListed(text) ==
    IF text = OneImageText THEN << <<"u", 0>> >>
    ELSE IF text = TwoImagesText THEN << <<"u", 0>>, <<"v", 1>> >>
    ELSE <<>>

\* the rows of recipe_images of the recipe with this id, as such pairs
ImagesOf(recipeId) ==
    LET own == SelectSeq(db.images, LAMBDA v : v.recipeId = recipeId)
    IN  [k \in 1..Len(own) |-> <<own[k].url.v, own[k].position.v>>]

\* the tag keys recipe_tags attaches to the recipe with this id
KeysOf(recipeId) ==
    UNION {KeysOfTag(db.recipeTags[k].tagId) :
              k \in {j \in 1..Len(db.recipeTags) : db.recipeTags[j].recipeId = recipeId}}

\* C29: after a successful importRecipesCsv the images and the tag
\* associations of CSV row i are attached to the recipe created from row i
\* and to no other (recipe_tags may since have been emptied by the cascade of
\* a later importTagsCsv).
C29_RowsKeepTheirImagesAndTags ==
    RecipesImported =>
        LET rows == recipesImport.file.rows
        IN  /\ Len(db.recipes) = Len(rows)
            /\ \A i, j \in 1..Len(rows) : i # j => db.recipes[i].id # db.recipes[j].id
            /\ \A k \in 1..Len(db.images) :
                   \E i \in 1..Len(rows) : db.images[k].recipeId = db.recipes[i].id
            /\ \A i \in 1..Len(rows) :
                   /\ db.recipes[i].name = Trim(rows[i].name)
                   /\ ImagesOf(db.recipes[i].id) = ImagesListed(rows[i].images)
                   /\ \/ db.recipeTags = <<>>
                      \/ KeysOf(db.recipes[i].id) =
                             {TagKeys(rows[i])[k] : k \in 1..Len(TagKeys(rows[i]))}

C29_Witness ==
    /\ RecipesImported
    /\ Len(recipesImport.file.rows) = 2
    /\ Len(db.images) = 3
    /\ Len(db.recipeTags) = 3
    /\ ImagesOf(db.recipes[1].id) # ImagesOf(db.recipes[2].id)
    /\ KeysOf(db.recipes[1].id) # KeysOf(db.recipes[2].id)

-----------------------------------------------------------------------------
(* Properties of the serverless entry point, over SpecServerless *)

\* the invocations that have called getApp and not returned
Running == {i \in 1..MaxInvocations : invocations[i] # NotInvoked}

\* C30: for every interleaving of handler invocations buildApp is called at
\* most once, and every invocation awaits the same app instance.
C30_OneAppForAllInvocations ==
    /\ builds <= 1
    /\ \A i, j \in Running : invocations[i].awaited = invocations[j].awaited
    /\ \A i \in Running :
           /\ invocations[i].awaited = appPromise.id
           /\ invocations[i].app \in {0, appPromise.id}

C30_Witness ==
    /\ builds = 1
    /\ Running = 1..MaxInvocations
    /\ \E i, j \in Running :
           /\ invocations[i].at = "inject"
           /\ invocations[j].at = "awaitApp"
           /\ invocations[i].app = 1

====
